---- MODULE Spec2Model ----
(***************************************************************************)
(* soroban-cli: `invoke` and `token create`, each in its sandbox strategy  *)
(* (a ledger snapshot file and an in-process Host) and its remote strategy *)
(* (an RPC server).  One run is a sequence of steps; the steps are the     *)
(* points where the run touches the snapshot file, the Host or the RPC     *)
(* server, or where it can return an error.                                *)
(***************************************************************************)
EXTENDS Integers, Sequences, FiniteSets, TLC

\* ------------------------------------------------------------------ bounds

\* Sequential runs against one ledger file.
MaxRuns == 2
\* Arguments on one command line given to the marshaler on its own.
MaxArgs == 3
\* The RPC server answers an account lookup with a sequence in 0..MaxSeq.
MaxSeq == 1

\* ------------------------------------------------------- program constants

\* create.rs: `self.symbol.len() > 12`
AssetCodeMax == 12
\* `let fee: u32 = 100;`
Fee == 100
\* `ledger_info.sequence_number += 1; ledger_info.timestamp += 5;`
LedgerSeqStep == 1
LedgerTimeStep == 5
\* `ScVec::default().max_len()` and the length limit of a symbol
ScVecMaxLen == 256000
ScSymbolMaxLen == 10

\* ----------------------------------------------------------------- values

NoErr == [tag |-> "none"]
Err(t) == [tag |-> t]

\* Accounts (ed25519 public keys).  ZeroAccount is
\* GAAAAAAAAAAAAAAAAAAAAAAAAAAAAAAAAAAAAAAAAAAAAAAAAAAAAWHF.
ZeroAccount == "GZERO"
AdminAccount == "GADMIN"
SignerAccount == "GSIGNER"

\* Secret keys as given on the command line, and the key pair they parse to.
GoodSecret == "SGOOD"
BadSecret == "notakey"
parse_private_key(s) ==
    IF s = GoodSecret THEN [ok |-> TRUE, public |-> SignerAccount, secret |-> s]
    ELSE [ok |-> FALSE, public |-> "", secret |-> ""]

\* 32-byte values given as hex text: a contract id or a salt.
ZeroSalt == "00"
OneSalt == "01"
GivenContract == "c1"
contract_id_from_str(s) ==
    IF s = "zz" THEN [ok |-> FALSE, bytes |-> ""] ELSE [ok |-> TRUE, bytes |-> s]

\* The XDR form of HashIdPreimage::ContractIdFromSourceAccount and its hash.
to_xdr_preimage(source_account, salt) ==
    "ContractIdFromSourceAccount|ed25519:" \o source_account \o "|" \o salt
Sha256(bytes) == "sha256(" \o bytes \o ")"

get_contract_id(salt, source_account) ==
    Sha256(to_xdr_preimage(source_account, salt))

\* ------------------------------------------------------------ ledger data

CodeKey(id) == [contract_id |-> id, key |-> "LedgerKeyContractCode"]
DataKey(id) == [contract_id |-> id, key |-> "Data"]
AdminKey(id) == [contract_id |-> id, key |-> "Admin"]
MetadataKey(id) == [contract_id |-> id, key |-> "Metadata"]

\* A deleted entry in the Host's storage map (Option::None).
NoEntry == "<none>"

\* Contract code: a wasm with a readable spec, one whose spec does not parse,
\* one too long for a ledger entry, and the built-in token contract.
WasmA == "WasmA"
WasmBad == "WasmBad"
WasmHuge == "WasmHuge"
TokenCode == "TokenCode"
\* A contract whose spec table declares a function under a name longer than a
\* symbol holds; only the marshaler on its own is given it.
WasmLong == "WasmLong"

EmptyEntries == [k \in {} |-> NoEntry]

\* storage_map applied to the entries read: Some(e) inserts, None removes.
ApplyStorage(entries, map) ==
    LET keep == {k \in DOMAIN entries \cup DOMAIN map :
                    IF k \in DOMAIN map THEN map[k] # NoEntry ELSE TRUE}
    IN  [k \in keep |-> IF k \in DOMAIN map THEN map[k] ELSE entries[k]]

Put(map, k, v) == [x \in DOMAIN map \cup {k} |-> IF x = k THEN v ELSE map[x]]

\* What the Host sees under key k: its own map first, the snapshot behind it.
Lookup(map, snap, k) ==
    IF k \in DOMAIN map THEN map[k]
    ELSE IF k \in DOMAIN snap THEN snap[k] ELSE NoEntry

\* --------------------------------------------------- the argument marshaler

\* soroban_spec::read::from_wasm: the spec entries of a contract's code.
from_wasm(wasm) ==
    IF wasm = WasmA
    THEN [ok |-> TRUE,
          entries |-> << [kind |-> "UdtStructV0", name |-> "udt", inputs |-> << >>],
                         [kind |-> "FunctionV0", name |-> "f", inputs |-> <<"U32", "Symbol">>],
                         [kind |-> "FunctionV0", name |-> "g", inputs |-> <<"U32">>],
                         [kind |-> "FunctionV0", name |-> "h",
                          inputs |-> <<"Symbol", "U32", "Symbol">>] >>]
    ELSE IF wasm = WasmLong
    THEN [ok |-> TRUE,
          entries |-> << [kind |-> "FunctionV0", name |-> "a_function_name",
                          inputs |-> <<"U32">>] >>]
    ELSE IF wasm = TokenCode
    THEN [ok |-> TRUE,
          entries |-> << [kind |-> "FunctionV0", name |-> "init", inputs |-> <<"Identifier", "TokenMetadata">>] >>]
    ELSE [ok |-> FALSE, entries |-> << >>]

\* `spec_entries.iter().find_map(..)`: the first FunctionV0 entry of that name.
RECURSIVE find_function(_, _, _)
find_function(entries, function, i) ==
    IF i > Len(entries) THEN [found |-> FALSE, name |-> "", inputs |-> << >>]
    ELSE IF entries[i].kind = "FunctionV0" /\ entries[i].name = function
         THEN [found |-> TRUE, name |-> entries[i].name, inputs |-> entries[i].inputs]
         ELSE find_function(entries, function, i + 1)

\* The command line is the sequence of argument values as typed, each of the
\* family "args" (--arg) or "args-xdr" (--arg-xdr).  clap gives each value an
\* index that grows along the command line: the flag takes one, the value the next.
ClapIndex(i) == 2 * i

RECURSIVE indices_of(_, _, _)
indices_of(cmdline, fam, i) ==
    IF i > Len(cmdline) THEN << >>
    ELSE (IF cmdline[i].fam = fam THEN <<ClapIndex(i)>> ELSE << >>)
         \o indices_of(cmdline, fam, i + 1)

RECURSIVE values_of(_, _, _)
values_of(cmdline, fam, i) ==
    IF i > Len(cmdline) THEN << >>
    ELSE (IF cmdline[i].fam = fam THEN <<cmdline[i].s>> ELSE << >>)
         \o values_of(cmdline, fam, i + 1)

MinOf(a, b) == IF a < b THEN a ELSE b

\* `indices.zip(values).map(|(a, b)| (a, Arg::X(b)))`
ZipIndexed(indices, values, kind) ==
    [i \in 1..MinOf(Len(indices), Len(values)) |->
        [idx |-> indices[i], kind |-> kind, s |-> values[i]]]

\* `sort_by(|a, b| a.0.cmp(&b.0))`: a stable sort on the index.
RECURSIVE InsertByIdx(_, _)
InsertByIdx(sorted, a) ==
    IF sorted = << >> THEN <<a>>
    ELSE IF a.idx < Head(sorted).idx THEN <<a>> \o sorted
         ELSE <<Head(sorted)>> \o InsertByIdx(Tail(sorted), a)

RECURSIVE sort_by_idx(_)
sort_by_idx(s) ==
    IF s = << >> THEN << >>
    ELSE InsertByIdx(sort_by_idx(SubSeq(s, 1, Len(s) - 1)), s[Len(s)])

\* all_indexed_args, were the two families concatenated and left unsorted.
all_indexed_args_Unsorted(cmdline) ==
    ZipIndexed(indices_of(cmdline, "args", 1), values_of(cmdline, "args", 1), "Arg")
    \o ZipIndexed(indices_of(cmdline, "args-xdr", 1), values_of(cmdline, "args-xdr", 1), "ArgXdr")

all_indexed_args(cmdline) ==
    sort_by_idx(
        ZipIndexed(indices_of(cmdline, "args", 1), values_of(cmdline, "args", 1), "Arg")
        \o ZipIndexed(indices_of(cmdline, "args-xdr", 1), values_of(cmdline, "args-xdr", 1), "ArgXdr"))

\* strval::from_string(s, type): a typed-string argument read as the declared type.
from_string(s, type) ==
    IF type = "U32"
    THEN (IF s \in {"7", "8"} THEN [ok |-> TRUE, val |-> [type |-> "U32", v |-> s]]
          ELSE [ok |-> FALSE, val |-> [type |-> "", v |-> ""]])
    ELSE IF type = "Symbol"
    THEN (IF Len(s) <= ScSymbolMaxLen THEN [ok |-> TRUE, val |-> [type |-> "Symbol", v |-> s]]
          ELSE [ok |-> FALSE, val |-> [type |-> "", v |-> ""]])
    ELSE [ok |-> FALSE, val |-> [type |-> "", v |-> ""]]

\* ScVal::from_xdr_base64(s): the value the bytes encode, whatever its type.
XdrU32Seven == "AAAAAQAAAAc="
XdrSymbolAbc == "AAAABQAAAANhYmMA"
XdrMalformed == "!!"
from_xdr_base64(s) ==
    IF s = XdrU32Seven THEN [ok |-> TRUE, val |-> [type |-> "U32", v |-> "7"]]
    ELSE IF s = XdrSymbolAbc THEN [ok |-> TRUE, val |-> [type |-> "Symbol", v |-> "abc"]]
    ELSE [ok |-> FALSE, val |-> [type |-> "", v |-> ""]]

\* parse_arg, were a decoded xdr value checked against the declared type.
parse_arg_ChecksXdrType(arg, input) ==
    IF arg.kind = "ArgXdr"
    THEN LET r == from_xdr_base64(arg.s)
         IN  IF r.ok /\ r.val.type = input THEN [err |-> NoErr, val |-> r.val]
             ELSE [err |-> [tag |-> "CannotParseXdrArg", arg |-> arg.s], val |-> r.val]
    ELSE LET r == from_string(arg.s, input)
         IN  IF r.ok THEN [err |-> NoErr, val |-> r.val]
             ELSE [err |-> [tag |-> "CannotParseArg", arg |-> arg.s], val |-> r.val]

\* One argument paired with its declared parameter.
parse_arg(arg, input) ==
    IF arg.kind = "ArgXdr"
    THEN LET r == from_xdr_base64(arg.s)
         IN  IF r.ok THEN [err |-> NoErr, val |-> r.val]
             ELSE [err |-> [tag |-> "CannotParseXdrArg", arg |-> arg.s], val |-> r.val]
    ELSE LET r == from_string(arg.s, input)
         IN  IF r.ok THEN [err |-> NoErr, val |-> r.val]
             ELSE [err |-> [tag |-> "CannotParseArg", arg |-> arg.s], val |-> r.val]

\* `.zip(inputs).map(..).collect::<Result<Vec<_>, _>>()`: the values, or the
\* first error in order.
RECURSIVE parsed_args(_, _, _)
parsed_args(args, inputs, i) ==
    IF i > MinOf(Len(args), Len(inputs)) THEN [err |-> NoErr, vals |-> << >>]
    ELSE LET r == parse_arg(args[i], inputs[i])
         IN  IF r.err # NoErr THEN [err |-> r.err, vals |-> << >>]
             ELSE LET rest == parsed_args(args, inputs, i + 1)
                  IN  IF rest.err # NoErr THEN rest
                      ELSE [err |-> NoErr, vals |-> <<r.val>> \o rest.vals]

MarshalFail(e) == [err |-> e, params |-> << >>]

\* The marshaler without its check of the argument count.
build_host_function_parameters_NoCountCheck(contract_id, wasm, function, cmdline) ==
    LET spec_entries == from_wasm(wasm)
        spec == find_function(spec_entries.entries, function, 1)
        args == all_indexed_args(cmdline)
        parsed == parsed_args(args, spec.inputs, 1)
        complete_args == << [type |-> "Bytes", v |-> contract_id],
                            [type |-> "Symbol", v |-> function] >> \o parsed.vals
    IN  IF ~spec_entries.ok THEN MarshalFail(Err("CannotParseContractSpec"))
        ELSE IF ~spec.found
        THEN MarshalFail([tag |-> "FunctionNotFoundInContractSpec", function |-> function])
        ELSE IF parsed.err # NoErr THEN MarshalFail(parsed.err)
        ELSE IF Len(function) > ScSymbolMaxLen
        THEN MarshalFail([tag |-> "FunctionNameTooLong", function |-> function])
        ELSE IF Len(complete_args) > ScVecMaxLen
        THEN MarshalFail([tag |-> "MaxNumberOfArgumentsReached",
                          current |-> Len(complete_args), maximum |-> ScVecMaxLen])
        ELSE [err |-> NoErr, params |-> complete_args]

\* The marshaler, were the arguments parsed before their count is compared.
build_host_function_parameters_ParsesFirst(contract_id, wasm, function, cmdline) ==
    LET spec_entries == from_wasm(wasm)
        spec == find_function(spec_entries.entries, function, 1)
        args == all_indexed_args(cmdline)
        parsed == parsed_args(args, spec.inputs, 1)
        complete_args == << [type |-> "Bytes", v |-> contract_id],
                            [type |-> "Symbol", v |-> function] >> \o parsed.vals
    IN  IF ~spec_entries.ok THEN MarshalFail(Err("CannotParseContractSpec"))
        ELSE IF ~spec.found
        THEN MarshalFail([tag |-> "FunctionNotFoundInContractSpec", function |-> function])
        ELSE IF parsed.err # NoErr THEN MarshalFail(parsed.err)
        ELSE IF Len(args) # Len(spec.inputs)
        THEN MarshalFail([tag |-> "UnexpectedArgumentCount", provided |-> Len(args),
                          expected |-> Len(spec.inputs), function |-> function])
        ELSE IF Len(function) > ScSymbolMaxLen
        THEN MarshalFail([tag |-> "FunctionNameTooLong", function |-> function])
        ELSE IF Len(complete_args) > ScVecMaxLen
        THEN MarshalFail([tag |-> "MaxNumberOfArgumentsReached",
                          current |-> Len(complete_args), maximum |-> ScVecMaxLen])
        ELSE [err |-> NoErr, params |-> complete_args]

\* The marshaler, were the contract id and the function name put after the arguments.
build_host_function_parameters_HeaderLast(contract_id, wasm, function, cmdline) ==
    LET spec_entries == from_wasm(wasm)
        spec == find_function(spec_entries.entries, function, 1)
        args == all_indexed_args(cmdline)
        parsed == parsed_args(args, spec.inputs, 1)
        complete_args == parsed.vals \o << [type |-> "Bytes", v |-> contract_id],
                                           [type |-> "Symbol", v |-> function] >>
    IN  IF ~spec_entries.ok THEN MarshalFail(Err("CannotParseContractSpec"))
        ELSE IF ~spec.found
        THEN MarshalFail([tag |-> "FunctionNotFoundInContractSpec", function |-> function])
        ELSE IF Len(args) # Len(spec.inputs)
        THEN MarshalFail([tag |-> "UnexpectedArgumentCount", provided |-> Len(args),
                          expected |-> Len(spec.inputs), function |-> function])
        ELSE IF parsed.err # NoErr THEN MarshalFail(parsed.err)
        ELSE IF Len(function) > ScSymbolMaxLen
        THEN MarshalFail([tag |-> "FunctionNameTooLong", function |-> function])
        ELSE IF Len(complete_args) > ScVecMaxLen
        THEN MarshalFail([tag |-> "MaxNumberOfArgumentsReached",
                          current |-> Len(complete_args), maximum |-> ScVecMaxLen])
        ELSE [err |-> NoErr, params |-> complete_args]

build_host_function_parameters(contract_id, wasm, function, cmdline) ==
    LET spec_entries == from_wasm(wasm)
        spec == find_function(spec_entries.entries, function, 1)
        args == all_indexed_args(cmdline)
        parsed == parsed_args(args, spec.inputs, 1)
        complete_args == << [type |-> "Bytes", v |-> contract_id],
                            [type |-> "Symbol", v |-> function] >> \o parsed.vals
    IN  IF ~spec_entries.ok THEN MarshalFail(Err("CannotParseContractSpec"))
        ELSE IF ~spec.found
        THEN MarshalFail([tag |-> "FunctionNotFoundInContractSpec", function |-> function])
        ELSE IF Len(args) # Len(spec.inputs)
        THEN MarshalFail([tag |-> "UnexpectedArgumentCount", provided |-> Len(args),
                          expected |-> Len(spec.inputs), function |-> function])
        ELSE IF parsed.err # NoErr THEN MarshalFail(parsed.err)
        ELSE IF Len(function) > ScSymbolMaxLen
        THEN MarshalFail([tag |-> "FunctionNameTooLong", function |-> function])
        ELSE IF Len(complete_args) > ScVecMaxLen
        THEN MarshalFail([tag |-> "MaxNumberOfArgumentsReached",
                          current |-> Len(complete_args), maximum |-> ScVecMaxLen])
        ELSE [err |-> NoErr, params |-> complete_args]

\* ------------------------------------------------------------ transactions

EmptyFootprint == [read_only |-> << >>, read_write |-> << >>]
NoFootprint == [some |-> FALSE, footprint |-> EmptyFootprint]
SomeFootprint(fp) == [some |-> TRUE, footprint |-> fp]

Passphrase == "Test SDF Network ; September 2015"

\* utils::sign_transaction: one signature, by `key`, over the hash of the
\* network id (the hash of the passphrase) and the transaction.
sign_transaction(key, tx, network_passphrase) ==
    [tx |-> tx,
     signatures |-> << [hint |-> key.public, network_id |-> Sha256(network_passphrase)] >>]

\* Transaction, were the operation to carry the signer as its own source account.
Transaction_OperationSource(key, fee, sequence, op) ==
    [source_account |-> key.public,
     fee |-> fee,
     seq_num |-> sequence,
     cond |-> "None",
     memo |-> "None",
     operations |-> << [op EXCEPT !.source_account = key.public] >>,
     ext |-> "V0"]

Transaction(key, fee, sequence, op) ==
    [source_account |-> key.public,
     fee |-> fee,
     seq_num |-> sequence,
     cond |-> "None",
     memo |-> "None",
     operations |-> <<op>>,
     ext |-> "V0"]

\* build_invoke_contract_tx, were the footprint given always dropped for the default.
build_invoke_contract_tx_DropsFootprint(parameters, footprint, sequence, fee, network_passphrase, key) ==
    LET op == [source_account |-> "None",
               function |-> "InvokeContract",
               parameters |-> parameters,
               footprint |-> EmptyFootprint]
    IN  sign_transaction(key, Transaction(key, fee, sequence, op), network_passphrase)

build_invoke_contract_tx(parameters, footprint, sequence, fee, network_passphrase, key) ==
    LET final_footprint == IF footprint.some THEN footprint.footprint ELSE EmptyFootprint
        op == [source_account |-> "None",
               function |-> "InvokeContract",
               parameters |-> parameters,
               footprint |-> final_footprint]
    IN  sign_transaction(key, Transaction(key, fee, sequence, op), network_passphrase)

build_tx(op, sequence, fee, network_passphrase, key) ==
    sign_transaction(key, Transaction(key, fee, sequence, op), network_passphrase)

build_create_token_op(contract_id, salt) ==
    [source_account |-> "None",
     function |-> "CreateTokenContractWithSourceAccount",
     parameters |-> << [type |-> "Bytes", v |-> salt] >>,
     footprint |-> [read_only |-> << >>, read_write |-> << CodeKey(contract_id) >>]]

\* A token symbol or name is a sequence of characters; TwoByteChar stands for a
\* character whose UTF-8 form takes two bytes.
TwoByteChar == "e'"
Utf8Width(c) == IF c = TwoByteChar THEN 2 ELSE 1

\* `String::len()`: the length in bytes.
RECURSIVE StrLen(_)
StrLen(chars) == IF chars = << >> THEN 0 ELSE Utf8Width(Head(chars)) + StrLen(Tail(chars))

RECURSIVE Text(_)
Text(chars) == IF chars = << >> THEN "" ELSE Head(chars) \o Text(Tail(chars))

TokenName == <<"T", "o", "k">>
Decimal == "7"

init_parameters(contract_id, admin, name, symbol, decimals) ==
    << [type |-> "Bytes", v |-> contract_id],
       [type |-> "Symbol", v |-> "init"],
       [type |-> "Vec", v |-> "Account:" \o admin],
       [type |-> "Map", v |-> "decimals=" \o decimals \o ",name=" \o Text(name)
                              \o ",symbol=" \o Text(symbol)] >>

\* build_init_op, were the Metadata key left out of the footprint.
build_init_op_AdminKeyOnly(contract_id, parameters) ==
    [source_account |-> "None",
     function |-> "InvokeContract",
     parameters |-> parameters,
     footprint |-> [read_only |-> << >>, read_write |-> << AdminKey(contract_id) >>]]

build_init_op(contract_id, parameters) ==
    [source_account |-> "None",
     function |-> "InvokeContract",
     parameters |-> parameters,
     footprint |-> [read_only |-> << >>,
                    read_write |-> << AdminKey(contract_id), MetadataKey(contract_id) >>]]

\* ----------------------------------------------------------------- the Host

\* What a Host invocation can come to: an error, or a result with the
\* entries it wrote (NoEntry for one it deleted).  The contract is opaque.
HostErr == [ok |-> FALSE, writes |-> EmptyEntries, res |-> ""]
HostOk(writes, res) == [ok |-> TRUE, writes |-> writes, res |-> res]

\* invoke_function(InvokeContract, ..) of a deployed contract.
InvokeContractOutcomes(contract_id) ==
    { HostErr,
      HostOk(EmptyEntries, "void"),
      HostOk(Put(EmptyEntries, DataKey(contract_id), "d1"), "d1"),
      HostOk(Put(EmptyEntries, DataKey(contract_id), NoEntry), "void") }

\* invoke_function(CreateTokenContractWithSourceAccount, [salt]): the Host
\* derives the id from its source account and the salt and stores the token
\* code under it; it refuses an id that exists.
CreateTokenOutcomes(storage, snap, source_account, salt) ==
    LET id == get_contract_id(salt, source_account)
    IN  {HostErr} \cup
        (IF Lookup(storage, snap, CodeKey(id)) = NoEntry
         THEN {HostOk(Put(EmptyEntries, CodeKey(id), TokenCode), id)}
         ELSE {})

\* invoke_function(InvokeContract, [id, "init", admin, metadata]) of the token
\* contract: it needs the token code under id and no administrator yet.
InitTokenOutcomes(storage, snap, parameters) ==
    LET id == parameters[1].v
    IN  {HostErr} \cup
        (IF /\ Lookup(storage, snap, CodeKey(id)) = TokenCode
            /\ Lookup(storage, snap, AdminKey(id)) = NoEntry
         THEN {HostOk(Put(Put(EmptyEntries, AdminKey(id), parameters[3].v),
                          MetadataKey(id), parameters[4].v), "void")}
         ELSE {})

\* The storage map after an invocation wrote `writes`.
Written(storage, writes) ==
    [k \in DOMAIN storage \cup DOMAIN writes |->
        IF k \in DOMAIN writes THEN writes[k] ELSE storage[k]]

\* --------------------------------------------------- the ledger snapshot file

LedgerInfo(s, t) == [sequence_number |-> s, timestamp |-> t]

\* snapshot::read: the pair (ledger info, entries) the file holds.
snapshot_read(f) == [info |-> f.info, entries |-> f.entries]

\* snapshot::commit(new_state, ledger_info, storage_map, file): the file is
\* replaced by ledger_info and new_state with the storage map applied.
snapshot_commit(new_state, ledger_info, storage_map) ==
    [info |-> ledger_info, entries |-> ApplyStorage(new_state, storage_map)]

\* utils::add_contract_to_ledger_entries: the code is stored under the id; code
\* too long for a ledger entry is refused.
add_contract_to_ledger_entries(entries, contract_id, contract) ==
    IF contract = WasmHuge THEN [ok |-> FALSE, entries |-> entries]
    ELSE [ok |-> TRUE, entries |-> Put(entries, CodeKey(contract_id), contract)]

\* fs::read of the --wasm file.
MissingFile == "missing.wasm"
fs_read(path) ==
    IF path = MissingFile THEN [ok |-> FALSE, bytes |-> ""] ELSE [ok |-> TRUE, bytes |-> path]

\* advance, were the timestamp left as read.
advance_SequenceOnly(info) == LedgerInfo(info.sequence_number + LedgerSeqStep, info.timestamp)

\* `ledger_info.sequence_number += 1; ledger_info.timestamp += 5;`
advance(info) ==
    LedgerInfo(info.sequence_number + LedgerSeqStep, info.timestamp + LedgerTimeStep)

\* ------------------------------------------------------------------- state

VARIABLES
    file,   \* the ledger snapshot file: [info, entries]
    cmd,    \* the command line of the current run
    pc,     \* where the run stands; "Done" and "Failed" end it
    err,    \* the error the run returned
    st,     \* the run's local variables
    out,    \* what the run printed on stdout
    log,    \* the run's snapshot reads and commits, Host invocations, RPC calls and id derivations, in order
    pre,    \* the snapshot file as it was when the run started
    runs,   \* runs started so far
    derived, \* every contract-id derivation of every run so far
    parked, \* a second process against the same ledger file, while it is off the processor
    succeeded  \* how many sandbox runs have exited with success so far

vars == <<file, cmd, pc, err, st, out, log, pre, runs, derived, parked, succeeded>>

\* ---------------------------------------------------------------- commands

ArgSeven == [fam |-> "args", s |-> "7"]
ArgAbc == [fam |-> "args", s |-> "abc"]
XdrArgSeven == [fam |-> "args-xdr", s |-> XdrU32Seven]
XdrArgAbc == [fam |-> "args-xdr", s |-> XdrSymbolAbc]
XdrArgBad == [fam |-> "args-xdr", s |-> XdrMalformed]

CmdLines ==
    { << >>, <<ArgSeven>>, <<ArgAbc>>, <<ArgSeven, ArgAbc>>, <<XdrArgSeven, ArgAbc>>,
      <<ArgSeven, XdrArgAbc>>, <<ArgAbc, ArgSeven>>, <<XdrArgAbc, XdrArgSeven>>,
      <<XdrArgBad, ArgAbc>>, <<ArgSeven, ArgAbc, XdrArgSeven>> }

LongFunctionName == "a_function_name"
Functions == {"f", "g", "udt", LongFunctionName}

\* --wasm: absent, a file that cannot be read, or a file holding that code.
NoWasm == ""
WasmFiles == {NoWasm, MissingFile, WasmA, WasmBad, WasmHuge}

\* --admin: absent, or an account.
NoAdmin == ""

Sym12 == [i \in 1..AssetCodeMax |-> "A"]
Symbols == { <<"X", "L", "M">>, Sym12, Sym12 \o <<"B">>,
             <<TwoByteChar, TwoByteChar, TwoByteChar, TwoByteChar, TwoByteChar, TwoByteChar, TwoByteChar>> }

\* clap: --rpc-server-url requires the secret key; without it the key is unused.
Sandbox == [rpc |-> FALSE, secret |-> GoodSecret]
Remote == [rpc |-> TRUE, secret |-> GoodSecret]
RemoteBadKey == [rpc |-> TRUE, secret |-> BadSecret]
Strategies == {Sandbox, Remote, RemoteBadKey}

InvokeCmd(c, w, f, a, s) ==
    [kind |-> "invoke", contract_id |-> c, account_id |-> ZeroAccount, wasm |-> w,
     function |-> f, cmdline |-> a, rpc |-> s.rpc, secret_key |-> s.secret,
     network_passphrase |-> Passphrase,
     salt |-> ZeroSalt, symbol |-> << >>, name |-> << >>, admin |-> NoAdmin, decimal |-> Decimal]

\* Every function and argument list, with and without a contract file, in both
\* strategies; and the inputs that fail before the arguments are looked at: a
\* malformed contract id or secret key, a contract file that cannot be read or
\* is too long.
InvokeCmds ==
    { InvokeCmd(GivenContract, w, f, a, s) :
        w \in {NoWasm, WasmA, WasmBad}, f \in Functions, a \in CmdLines,
        s \in {Sandbox, Remote} }
    \cup
    { InvokeCmd(c, w, "f", <<ArgSeven, ArgAbc>>, s) :
        c \in {"zz", GivenContract}, w \in WasmFiles, s \in Strategies }

TokenCmds ==
    { [kind |-> "token", contract_id |-> "", account_id |-> ZeroAccount, wasm |-> NoWasm,
       function |-> "", cmdline |-> << >>, rpc |-> s.rpc, secret_key |-> s.secret,
       network_passphrase |-> Passphrase,
       salt |-> h, symbol |-> y, name |-> TokenName, admin |-> a, decimal |-> Decimal] :
      h \in {"zz", ZeroSalt, OneSalt}, y \in Symbols, a \in {NoAdmin, AdminAccount},
      s \in Strategies }

Cmds == InvokeCmds \cup TokenCmds

NoCmd == CHOOSE c \in TokenCmds : TRUE

InitLocals ==
    [contract_id |-> "",
     state |-> [info |-> LedgerInfo(0, 0), entries |-> EmptyEntries],
     storage |-> EmptyEntries,
     snap |-> EmptyEntries,
     source_account |-> "",
     ledger_info |-> LedgerInfo(0, 0),
     params |-> << >>,
     key |-> parse_private_key(BadSecret),
     sequence |-> 0,
     wasm |-> "",
     footprint |-> EmptyFootprint,
     salt |-> "",
     salt_val |-> "",
     admin |-> "",
     res |-> ""]

\* A ledger file as a run may find it: new, or holding the contract's code.
InitFiles ==
    { [info |-> LedgerInfo(0, 0), entries |-> EmptyEntries],
      [info |-> LedgerInfo(0, 0), entries |-> Put(EmptyEntries, CodeKey(GivenContract), WasmA)] }

\* No second process.
Alone == [pc |-> "none"]

Init ==
    /\ parked = Alone
    /\ succeeded = 0
    /\ file \in InitFiles
    /\ cmd = NoCmd
    /\ pc = "idle"
    /\ err = NoErr
    /\ st = InitLocals
    /\ out = ""
    /\ log = << >>
    /\ pre = file
    /\ runs = 0
    /\ derived = {}

Terminal == pc \in {"Done", "Failed"}

\* The operating system starts the program with a command line.
Start ==
    /\ pc = "idle"
    /\ runs < MaxRuns
    /\ \E c \in Cmds : cmd' = c
    /\ pc' = "run"
    /\ err' = NoErr
    /\ st' = InitLocals
    /\ out' = ""
    /\ log' = << >>
    /\ pre' = file
    /\ runs' = runs + 1
    /\ UNCHANGED <<file, derived, parked, succeeded>>

\* The process exits: only the ledger file outlives it.
Exit ==
    /\ Terminal
    /\ pc' = "idle"
    /\ cmd' = NoCmd
    /\ err' = NoErr
    /\ st' = InitLocals
    /\ out' = ""
    /\ log' = << >>
    /\ pre' = file
    /\ succeeded' = IF pc = "Done" /\ ~cmd.rpc THEN succeeded + 1 ELSE succeeded
    /\ UNCHANGED <<file, runs, derived, parked>>

\* `return Err(e)` / `?`
Fail(e) == pc' = "Failed" /\ err' = e

\* Events of the log.
ReadEvent(ok) == [ev |-> "snapshot_read", ok |-> ok]
CommitEvent(ok) == [ev |-> "snapshot_commit", ok |-> ok]
HostEvent(function, parameters, source_account, ledger_info, ok) ==
    [ev |-> "host", function |-> function, parameters |-> parameters,
     source_account |-> source_account, ledger_info |-> ledger_info, ok |-> ok]
RpcEvent(method, ok) == [ev |-> "rpc", method |-> method, ok |-> ok]
RpcTxEvent(method, tx, ok) == [ev |-> "rpc", method |-> method, tx |-> tx, ok |-> ok]
\* An answered account lookup, with the sequence text of the answer.
AccountEvent(text) == [ev |-> "rpc", method |-> "getAccount", ok |-> TRUE, sequence |-> text]
\* An answered simulation, with the footprint text of the answer.
SimulatedEvent(tx, answer) ==
    [ev |-> "rpc", method |-> "simulateTransaction", tx |-> tx, ok |-> TRUE, answer |-> answer]
DeriveEvent(salt, source_account, id) ==
    [ev |-> "derive", salt |-> salt, source_account |-> source_account, id |-> id]

\* ------------------------------------------------------------------ invoke

\* InvokeRun, were the sandbox taken whether or not an RPC endpoint is given.
InvokeRun_AlwaysSandbox ==
    /\ pc = "run"
    /\ cmd.kind = "invoke"
    /\ LET id == contract_id_from_str(cmd.contract_id)
       IN  IF ~id.ok
           THEN /\ Fail([tag |-> "CannotParseContractId", contract_id |-> cmd.contract_id])
                /\ UNCHANGED st
           ELSE /\ st' = [st EXCEPT !.contract_id = id.bytes]
                /\ pc' = "sb_read"
                /\ UNCHANGED err
    /\ UNCHANGED <<file, cmd, out, log, pre, runs, derived, parked, succeeded>>

\* invoke.rs, Cmd::run
InvokeRun ==
    /\ pc = "run"
    /\ cmd.kind = "invoke"
    /\ LET id == contract_id_from_str(cmd.contract_id)
       IN  IF ~id.ok
           THEN /\ Fail([tag |-> "CannotParseContractId", contract_id |-> cmd.contract_id])
                /\ UNCHANGED st
           ELSE /\ st' = [st EXCEPT !.contract_id = id.bytes]
                /\ pc' = IF cmd.rpc THEN "rpc_key" ELSE "sb_read"
                /\ UNCHANGED err
    /\ UNCHANGED <<file, cmd, out, log, pre, runs, derived, parked, succeeded>>

\* invoke.rs, run_in_sandbox: `snapshot::read(&self.ledger_file)`
SbRead ==
    /\ pc = "sb_read"
    /\ \E ok \in BOOLEAN :
        /\ log' = Append(log, ReadEvent(ok))
        /\ IF ok
           THEN /\ st' = [st EXCEPT !.state = snapshot_read(file)]
                /\ pc' = "sb_prepare"
                /\ UNCHANGED err
           ELSE /\ Fail(Err("CannotReadLedgerFile"))
                /\ UNCHANGED st
    /\ UNCHANGED <<file, cmd, out, pre, runs, derived, parked, succeeded>>

\* invoke.rs, run_in_sandbox: from the --wasm deployment to the parameters
SbPrepare ==
    /\ pc = "sb_prepare"
    /\ LET contract == fs_read(cmd.wasm)
           added == add_contract_to_ledger_entries(st.state.entries, st.contract_id,
                                                   contract.bytes)
           entries == IF cmd.wasm # NoWasm THEN added.entries ELSE st.state.entries
           code == Lookup(EmptyEntries, entries, CodeKey(st.contract_id))
           marshal == build_host_function_parameters(st.contract_id, code,
                                                     cmd.function, cmd.cmdline)
       IN  IF cmd.wasm # NoWasm /\ ~contract.ok
           THEN Fail(Err("CannotReadContractFile")) /\ UNCHANGED st
           ELSE IF cmd.wasm # NoWasm /\ ~added.ok
           THEN Fail(Err("CannotAddContractToLedgerEntries")) /\ UNCHANGED st
           ELSE IF code = NoEntry
           THEN /\ Fail(Err("Host"))
                /\ st' = [st EXCEPT !.state.entries = entries, !.snap = entries]
           ELSE IF marshal.err # NoErr
           THEN /\ Fail(marshal.err)
                /\ st' = [st EXCEPT !.state.entries = entries, !.snap = entries,
                                    !.storage = Put(EmptyEntries, CodeKey(st.contract_id), code),
                                    !.wasm = code,
                                    !.source_account = cmd.account_id,
                                    !.ledger_info = advance(st.state.info)]
           ELSE /\ st' = [st EXCEPT !.state.entries = entries, !.snap = entries,
                                    !.storage = Put(EmptyEntries, CodeKey(st.contract_id), code),
                                    !.wasm = code,
                                    !.source_account = cmd.account_id,
                                    !.ledger_info = advance(st.state.info),
                                    !.params = marshal.params]
                /\ pc' = "sb_invoke"
                /\ UNCHANGED err
    /\ UNCHANGED <<file, cmd, out, log, pre, runs, derived, parked, succeeded>>

\* SbInvoke, were a failed invocation to fall through to the commit.
SbInvoke_CommitsOnFailure ==
    /\ pc = "sb_invoke"
    /\ \E o \in InvokeContractOutcomes(st.contract_id) :
        /\ log' = Append(log, HostEvent("InvokeContract", st.params, st.source_account,
                                        st.ledger_info, o.ok))
        /\ IF o.ok
           THEN /\ st' = [st EXCEPT !.storage = Written(st.storage, o.writes),
                                    !.res = o.res]
                /\ pc' = "sb_finish"
                /\ UNCHANGED <<err, file>>
           ELSE /\ Fail(Err("Host"))
                /\ file' = snapshot_commit(st.state.entries, st.ledger_info, st.storage)
                /\ UNCHANGED st
    /\ UNCHANGED <<cmd, out, pre, runs, derived, parked, succeeded>>

\* invoke.rs, run_in_sandbox: `h.invoke_function(HostFunction::InvokeContract, ..)`
SbInvoke ==
    /\ pc = "sb_invoke"
    /\ \E o \in InvokeContractOutcomes(st.contract_id) :
        /\ log' = Append(log, HostEvent("InvokeContract", st.params, st.source_account,
                                        st.ledger_info, o.ok))
        /\ IF o.ok
           THEN /\ st' = [st EXCEPT !.storage = Written(st.storage, o.writes),
                                    !.res = o.res]
                /\ pc' = "sb_finish"
                /\ UNCHANGED err
           ELSE /\ Fail(Err("Host"))
                /\ UNCHANGED st
    /\ UNCHANGED <<file, cmd, out, pre, runs, derived, parked, succeeded>>

\* invoke.rs, run_in_sandbox: `strval::to_string(&res)` and `h.try_finish()`
SbFinish ==
    /\ pc = "sb_finish"
    /\ \E r \in {"ok", "CannotPrintResult", "Host"} :
        IF r = "ok"
        THEN pc' = "sb_commit" /\ out' = st.res /\ UNCHANGED err
        ELSE /\ Fail(Err(r))
             /\ out' = IF r = "CannotPrintResult" THEN out ELSE st.res
    /\ UNCHANGED <<file, cmd, st, log, pre, runs, derived, parked, succeeded>>

\* SbCommit, were the file read again and the run's writes merged into what it holds.
SbCommit_MergesIntoFile ==
    /\ pc = "sb_commit"
    /\ \E ok \in BOOLEAN :
        /\ log' = Append(log, CommitEvent(ok))
        /\ IF ok
           THEN /\ file' = snapshot_commit(file.entries, advance(file.info), st.storage)
                /\ pc' = "Done"
                /\ UNCHANGED err
           ELSE /\ Fail(Err("CannotCommitLedgerFile"))
                /\ UNCHANGED file
    /\ UNCHANGED <<cmd, st, out, pre, runs, derived, parked, succeeded>>

\* invoke.rs, run_in_sandbox: `snapshot::commit(state.1, ledger_info, &storage.map, ..)`
SbCommit ==
    /\ pc = "sb_commit"
    /\ \E ok \in BOOLEAN :
        /\ log' = Append(log, CommitEvent(ok))
        /\ IF ok
           THEN /\ file' = snapshot_commit(st.state.entries, st.ledger_info, st.storage)
                /\ pc' = "Done"
                /\ UNCHANGED err
           ELSE /\ Fail(Err("CannotCommitLedgerFile"))
                /\ UNCHANGED file
    /\ UNCHANGED <<cmd, st, out, pre, runs, derived, parked, succeeded>>

\* ------------------------------------------------------------ token create

\* Cmd::run, were the symbol's limit one too high.
TokenRun_OffByOne ==
    /\ pc = "run"
    /\ cmd.kind = "token"
    /\ LET salt == contract_id_from_str(cmd.salt)
       IN  IF ~salt.ok
           THEN Fail([tag |-> "CannotParseSalt", salt |-> cmd.salt]) /\ UNCHANGED st
           ELSE IF StrLen(cmd.symbol) > AssetCodeMax + 1
           THEN Fail([tag |-> "InvalidAssetCode", asset |-> cmd.symbol]) /\ UNCHANGED st
           ELSE /\ st' = [st EXCEPT !.salt = salt.bytes]
                /\ pc' = IF cmd.rpc THEN "tk_rpc_key" ELSE "tk_sb_read"
                /\ UNCHANGED err
    /\ UNCHANGED <<file, cmd, out, log, pre, runs, derived, parked, succeeded>>

\* token/create.rs, Cmd::run
TokenRun ==
    /\ pc = "run"
    /\ cmd.kind = "token"
    /\ LET salt == contract_id_from_str(cmd.salt)
       IN  IF ~salt.ok
           THEN Fail([tag |-> "CannotParseSalt", salt |-> cmd.salt]) /\ UNCHANGED st
           ELSE IF StrLen(cmd.symbol) > AssetCodeMax
           THEN Fail([tag |-> "InvalidAssetCode", asset |-> cmd.symbol]) /\ UNCHANGED st
           ELSE /\ st' = [st EXCEPT !.salt = salt.bytes]
                /\ pc' = IF cmd.rpc THEN "tk_rpc_key" ELSE "tk_sb_read"
                /\ UNCHANGED err
    /\ UNCHANGED <<file, cmd, out, log, pre, runs, derived, parked, succeeded>>

\* token/create.rs, run_in_sandbox: the default administrator, `snapshot::read`,
\* the Host's source account and ledger info
TkSbRead ==
    /\ pc = "tk_sb_read"
    /\ \E ok \in BOOLEAN :
        /\ log' = Append(log, ReadEvent(ok))
        /\ IF ok
           THEN LET admin == IF cmd.admin # NoAdmin THEN cmd.admin ELSE ZeroAccount
                    state == snapshot_read(file)
                IN  /\ st' = [st EXCEPT !.admin = admin,
                                        !.state = state,
                                        !.snap = state.entries,
                                        !.source_account = admin,
                                        !.ledger_info = advance(state.info)]
                    /\ pc' = "tk_sb_create"
                    /\ UNCHANGED err
           ELSE /\ Fail(Err("CannotReadLedgerFile"))
                /\ UNCHANGED st
    /\ UNCHANGED <<file, cmd, out, pre, runs, derived, parked, succeeded>>

\* TkSbCreate, were the snapshot committed after each invocation.
TkSbCreate_CommitsEarly ==
    /\ pc = "tk_sb_create"
    /\ \E o \in CreateTokenOutcomes(st.storage, st.snap, st.source_account, st.salt) :
        /\ IF o.ok
           THEN /\ st' = [st EXCEPT !.storage = Written(st.storage, o.writes),
                                    !.res = o.res]
                /\ log' = log \o << HostEvent("CreateTokenContractWithSourceAccount",
                                              << [type |-> "Bytes", v |-> st.salt] >>,
                                              st.source_account, st.ledger_info, o.ok),
                                    CommitEvent(TRUE) >>
                /\ file' = snapshot_commit(st.state.entries, st.ledger_info,
                                           Written(st.storage, o.writes))
                /\ pc' = "tk_sb_init"
                /\ UNCHANGED err
           ELSE /\ log' = Append(log, HostEvent("CreateTokenContractWithSourceAccount",
                                                << [type |-> "Bytes", v |-> st.salt] >>,
                                                st.source_account, st.ledger_info, o.ok))
                /\ Fail(Err("Host"))
                /\ UNCHANGED <<st, file>>
    /\ UNCHANGED <<cmd, out, pre, runs, derived, parked, succeeded>>

\* token/create.rs, run_in_sandbox:
\* `h.invoke_function(HostFunction::CreateTokenContractWithSourceAccount, [salt])`
TkSbCreate ==
    /\ pc = "tk_sb_create"
    /\ \E o \in CreateTokenOutcomes(st.storage, st.snap, st.source_account, st.salt) :
        /\ log' = Append(log, HostEvent("CreateTokenContractWithSourceAccount",
                                        << [type |-> "Bytes", v |-> st.salt] >>,
                                        st.source_account, st.ledger_info, o.ok))
        /\ IF o.ok
           THEN /\ st' = [st EXCEPT !.storage = Written(st.storage, o.writes),
                                    !.res = o.res]
                /\ pc' = "tk_sb_init"
                /\ UNCHANGED err
           ELSE /\ Fail(Err("Host"))
                /\ UNCHANGED st
    /\ UNCHANGED <<file, cmd, out, pre, runs, derived, parked, succeeded>>

\* TkSbInit, were the result of the initialize invocation ignored.
TkSbInit_IgnoresFailure ==
    /\ pc = "tk_sb_init"
    /\ LET contract_id == get_contract_id(st.salt, st.admin)
           parameters == init_parameters(contract_id, st.admin, cmd.name, cmd.symbol,
                                         cmd.decimal)
           d == DeriveEvent(st.salt, st.admin, contract_id)
       IN  /\ derived' = derived \cup {[salt |-> st.salt, source_account |-> st.admin,
                                        id |-> contract_id, rpc |-> FALSE]}
           /\ \E o \in InitTokenOutcomes(st.storage, st.snap, parameters) :
               /\ log' = log \o << d, HostEvent("InvokeContract", parameters,
                                                st.source_account, st.ledger_info, o.ok) >>
               /\ st' = [st EXCEPT !.storage = Written(st.storage, o.writes),
                                   !.contract_id = contract_id,
                                   !.params = parameters]
               /\ pc' = "tk_sb_finish"
               /\ UNCHANGED err
    /\ UNCHANGED <<file, cmd, out, pre, runs, parked, succeeded>>

\* token/create.rs, run_in_sandbox: `get_contract_id(salt, admin)` and
\* `h.invoke_function(HostFunction::InvokeContract, init_parameters(..))`
TkSbInit ==
    /\ pc = "tk_sb_init"
    /\ LET contract_id == get_contract_id(st.salt, st.admin)
           parameters == init_parameters(contract_id, st.admin, cmd.name, cmd.symbol,
                                         cmd.decimal)
           d == DeriveEvent(st.salt, st.admin, contract_id)
       IN  /\ derived' = derived \cup {[salt |-> st.salt, source_account |-> st.admin,
                                        id |-> contract_id, rpc |-> FALSE]}
           /\ \E o \in InitTokenOutcomes(st.storage, st.snap, parameters) :
               /\ log' = log \o << d, HostEvent("InvokeContract", parameters,
                                                st.source_account, st.ledger_info, o.ok) >>
               /\ IF o.ok
                  THEN /\ st' = [st EXCEPT !.storage = Written(st.storage, o.writes),
                                           !.contract_id = contract_id,
                                           !.params = parameters]
                       /\ pc' = "tk_sb_finish"
                       /\ UNCHANGED err
                  ELSE /\ Fail(Err("Host"))
                       /\ st' = [st EXCEPT !.contract_id = contract_id,
                                           !.params = parameters]
    /\ UNCHANGED <<file, cmd, out, pre, runs, parked, succeeded>>

\* token/create.rs, run_in_sandbox: `h.try_finish()`
TkSbFinish ==
    /\ pc = "tk_sb_finish"
    /\ \E ok \in BOOLEAN :
        IF ok THEN pc' = "tk_sb_commit" /\ UNCHANGED err
        ELSE Fail(Err("Host"))
    /\ UNCHANGED <<file, cmd, st, out, log, pre, runs, derived, parked, succeeded>>

\* token/create.rs, run_in_sandbox: `snapshot::commit(..)`, and Cmd::run prints
\* the id the Host returned
TkSbCommit ==
    /\ pc = "tk_sb_commit"
    /\ \E ok \in BOOLEAN :
        /\ log' = Append(log, CommitEvent(ok))
        /\ IF ok
           THEN /\ file' = snapshot_commit(st.state.entries, st.ledger_info, st.storage)
                /\ out' = st.res
                /\ pc' = "Done"
                /\ UNCHANGED err
           ELSE /\ Fail(Err("CannotCommitLedgerFile"))
                /\ UNCHANGED <<file, out>>
    /\ UNCHANGED <<cmd, st, pre, runs, derived, parked, succeeded>>

\* ------------------------------------------------------------ the RPC server

\* The `sequence` text of an account lookup's answer and `parse::<i64>()` of it.
SequenceTexts ==
    {[digits |-> TRUE, n |-> n] : n \in 0..MaxSeq} \cup {[digits |-> FALSE, n |-> 0]}
parse_i64(text) == [ok |-> text.digits, n |-> text.n]

\* The `xdr` text of a contract-data answer and what it decodes to.
ContractDataXdrs ==
    { [wellformed |-> FALSE, type |-> "", v |-> ""],
      [wellformed |-> TRUE, type |-> "Bytes", v |-> WasmA],
      [wellformed |-> TRUE, type |-> "Bytes", v |-> WasmBad],
      [wellformed |-> TRUE, type |-> "U32", v |-> "7"] }

\* The `footprint` text of a simulation's answer and what it decodes to.
SimulatedFootprints(contract_id) ==
    { [wellformed |-> FALSE, footprint |-> EmptyFootprint],
      [wellformed |-> TRUE,
       footprint |-> [read_only |-> << CodeKey(contract_id) >>, read_write |-> << >>]],
      [wellformed |-> TRUE,
       footprint |-> [read_only |-> << CodeKey(contract_id) >>,
                      read_write |-> << DataKey(contract_id) >>]] }

\* 32 random bytes.
RandomSalts == {ZeroSalt, "7f"}

\* ----------------------------------------------------------- remote invoke

\* invoke.rs, run_against_rpc_server: `utils::parse_private_key(..)`
RpcKey ==
    /\ pc = "rpc_key"
    /\ LET key == parse_private_key(cmd.secret_key)
       IN  IF ~key.ok
           THEN Fail(Err("CannotParseSecretKey")) /\ UNCHANGED st
           ELSE /\ st' = [st EXCEPT !.key = key]
                /\ pc' = "rpc_account"
                /\ UNCHANGED err
    /\ UNCHANGED <<file, cmd, out, log, pre, runs, derived, parked, succeeded>>

\* invoke.rs, run_against_rpc_server: `client.get_account(..)` and the sequence
RpcGetAccount ==
    /\ pc = "rpc_account"
    /\ \/ /\ log' = Append(log, RpcEvent("getAccount", FALSE))
          /\ Fail(Err("Rpc"))
          /\ UNCHANGED st
       \/ \E text \in SequenceTexts :
            /\ log' = Append(log, AccountEvent(text))
            /\ LET sequence == parse_i64(text)
               IN  IF ~sequence.ok
                   THEN Fail(Err("ParseIntError")) /\ UNCHANGED st
                   ELSE /\ st' = [st EXCEPT !.sequence = sequence.n]
                        /\ pc' = "rpc_wasm"
                        /\ UNCHANGED err
    /\ UNCHANGED <<file, cmd, out, pre, runs, derived, parked, succeeded>>

\* invoke.rs, run_against_rpc_server: the contract, from --wasm or from
\* `client.get_contract_data(..)`
RpcGetWasm ==
    /\ pc = "rpc_wasm"
    /\ IF cmd.wasm # NoWasm
       THEN /\ LET contract == fs_read(cmd.wasm)
               IN  IF ~contract.ok
                   THEN Fail(Err("CannotReadContractFile")) /\ UNCHANGED st
                   ELSE /\ st' = [st EXCEPT !.wasm = contract.bytes]
                        /\ pc' = "rpc_simulate"
                        /\ UNCHANGED err
            /\ UNCHANGED log
       ELSE \/ /\ log' = Append(log, RpcEvent("getContractData", FALSE))
               /\ Fail(Err("Rpc"))
               /\ UNCHANGED st
            \/ \E xdr \in ContractDataXdrs :
                 /\ log' = Append(log, RpcEvent("getContractData", TRUE))
                 /\ IF ~xdr.wellformed
                    THEN Fail(Err("Xdr")) /\ UNCHANGED st
                    ELSE IF xdr.type # "Bytes"
                    THEN Fail(Err("UnexpectedContractCodeDataType")) /\ UNCHANGED st
                    ELSE /\ st' = [st EXCEPT !.wasm = xdr.v]
                         /\ pc' = "rpc_simulate"
                         /\ UNCHANGED err
    /\ UNCHANGED <<file, cmd, out, pre, runs, derived, parked, succeeded>>

\* invoke.rs, run_against_rpc_server: the parameters, the transaction without
\* footprint, `client.simulate_transaction(..)` and the footprint it returns
RpcSimulate ==
    /\ pc = "rpc_simulate"
    /\ LET marshal == build_host_function_parameters(st.contract_id, st.wasm,
                                                     cmd.function, cmd.cmdline)
           tx_without_footprint ==
               build_invoke_contract_tx(marshal.params, NoFootprint, st.sequence + 1, Fee,
                                        cmd.network_passphrase, st.key)
       IN  IF marshal.err # NoErr
           THEN Fail(marshal.err) /\ UNCHANGED <<st, log>>
           ELSE \/ /\ log' = Append(log, RpcTxEvent("simulateTransaction",
                                                    tx_without_footprint, FALSE))
                   /\ Fail(Err("Rpc"))
                   /\ st' = [st EXCEPT !.params = marshal.params]
                \/ \E answer \in SimulatedFootprints(st.contract_id) :
                     /\ log' = Append(log, SimulatedEvent(tx_without_footprint, answer))
                     /\ IF ~answer.wellformed
                        THEN /\ Fail(Err("Xdr"))
                             /\ st' = [st EXCEPT !.params = marshal.params]
                        ELSE /\ st' = [st EXCEPT !.params = marshal.params,
                                                 !.footprint = answer.footprint]
                             /\ pc' = "rpc_send"
                             /\ UNCHANGED err
    /\ UNCHANGED <<file, cmd, out, pre, runs, derived, parked, succeeded>>

\* RpcSend, were a rejected submission followed once by a new simulation.
RpcSend_Resimulates ==
    /\ pc = "rpc_send"
    /\ LET tx == build_invoke_contract_tx(st.params, SomeFootprint(st.footprint),
                                          st.sequence + 1, Fee,
                                          cmd.network_passphrase, st.key)
       IN  \E ok \in BOOLEAN :
             /\ log' = Append(log, RpcTxEvent("sendTransaction", tx, ok))
             /\ IF ok THEN pc' = "Done" /\ UNCHANGED err
                ELSE IF Len(log) < 4 THEN pc' = "rpc_simulate" /\ UNCHANGED err
                ELSE Fail(Err("Rpc"))
    /\ UNCHANGED <<file, cmd, st, out, pre, runs, derived, parked, succeeded>>

\* invoke.rs, run_against_rpc_server: the transaction with the footprint and
\* `client.send_transaction(&tx)`
RpcSend ==
    /\ pc = "rpc_send"
    /\ LET tx == build_invoke_contract_tx(st.params, SomeFootprint(st.footprint),
                                          st.sequence + 1, Fee,
                                          cmd.network_passphrase, st.key)
       IN  \E ok \in BOOLEAN :
             /\ log' = Append(log, RpcTxEvent("sendTransaction", tx, ok))
             /\ IF ok THEN pc' = "Done" /\ UNCHANGED err
                ELSE Fail(Err("Rpc"))
    /\ UNCHANGED <<file, cmd, st, out, pre, runs, derived, parked, succeeded>>

\* ----------------------------------------------------- remote token create

\* TkRpcKey, were a salt generated whatever salt the caller gave.
TkRpcKey_AlwaysGenerates ==
    /\ pc = "tk_rpc_key"
    /\ LET key == parse_private_key(cmd.secret_key)
       IN  IF ~key.ok
           THEN Fail(Err("CannotParsePrivateKey")) /\ UNCHANGED st
           ELSE /\ \E random \in RandomSalts :
                     st' = [st EXCEPT !.key = key,
                                      !.salt_val = random,
                                      !.admin = IF cmd.admin # NoAdmin THEN cmd.admin
                                                ELSE key.public]
                /\ pc' = "tk_rpc_account"
                /\ UNCHANGED err
    /\ UNCHANGED <<file, cmd, out, log, pre, runs, derived, parked, succeeded>>

\* token/create.rs, run_against_rpc_server: the key, the salt and the administrator
TkRpcKey ==
    /\ pc = "tk_rpc_key"
    /\ LET key == parse_private_key(cmd.secret_key)
       IN  IF ~key.ok
           THEN Fail(Err("CannotParsePrivateKey")) /\ UNCHANGED st
           ELSE /\ \E random \in RandomSalts :
                     st' = [st EXCEPT !.key = key,
                                      !.salt_val = IF st.salt = ZeroSalt THEN random
                                                   ELSE st.salt,
                                      !.admin = IF cmd.admin # NoAdmin THEN cmd.admin
                                                ELSE key.public]
                /\ pc' = "tk_rpc_account"
                /\ UNCHANGED err
    /\ UNCHANGED <<file, cmd, out, log, pre, runs, derived, parked, succeeded>>

\* TkRpcGetAccount, were the two 32-byte arguments of get_contract_id swapped.
TkRpcGetAccount_SwapsArguments ==
    /\ pc = "tk_rpc_account"
    /\ \/ /\ log' = Append(log, RpcEvent("getAccount", FALSE))
          /\ Fail(Err("Client"))
          /\ UNCHANGED <<st, derived>>
       \/ \E text \in SequenceTexts :
            LET sequence == parse_i64(text)
                contract_id == get_contract_id(st.admin, st.salt_val)
            IN  IF ~sequence.ok
                THEN /\ log' = Append(log, AccountEvent(text))
                     /\ Fail(Err("ParseIntError"))
                     /\ UNCHANGED <<st, derived>>
                ELSE /\ log' = log \o << AccountEvent(text),
                                         DeriveEvent(st.salt_val, st.admin, contract_id) >>
                     /\ derived' = derived \cup
                            {[salt |-> st.salt_val, source_account |-> st.admin,
                              id |-> contract_id, rpc |-> TRUE]}
                     /\ st' = [st EXCEPT !.sequence = sequence.n,
                                         !.contract_id = contract_id]
                     /\ pc' = "tk_rpc_create"
                     /\ UNCHANGED err
    /\ UNCHANGED <<file, cmd, out, pre, runs, parked, succeeded>>

\* token/create.rs, run_against_rpc_server: `client.get_account(..)`, the
\* sequence and `get_contract_id(salt_val, admin_key)`
TkRpcGetAccount ==
    /\ pc = "tk_rpc_account"
    /\ \/ /\ log' = Append(log, RpcEvent("getAccount", FALSE))
          /\ Fail(Err("Client"))
          /\ UNCHANGED <<st, derived>>
       \/ \E text \in SequenceTexts :
            LET sequence == parse_i64(text)
                contract_id == get_contract_id(st.salt_val, st.admin)
            IN  IF ~sequence.ok
                THEN /\ log' = Append(log, AccountEvent(text))
                     /\ Fail(Err("ParseIntError"))
                     /\ UNCHANGED <<st, derived>>
                ELSE /\ log' = log \o << AccountEvent(text),
                                         DeriveEvent(st.salt_val, st.admin, contract_id) >>
                     /\ derived' = derived \cup
                            {[salt |-> st.salt_val, source_account |-> st.admin,
                              id |-> contract_id, rpc |-> TRUE]}
                     /\ st' = [st EXCEPT !.sequence = sequence.n,
                                         !.contract_id = contract_id]
                     /\ pc' = "tk_rpc_create"
                     /\ UNCHANGED err
    /\ UNCHANGED <<file, cmd, out, pre, runs, parked, succeeded>>

\* TkRpcSendCreate, were the result of the submission ignored.
TkRpcSendCreate_SwallowsError ==
    /\ pc = "tk_rpc_create"
    /\ LET tx == build_tx(build_create_token_op(st.contract_id, st.salt_val),
                          st.sequence + 1, Fee, cmd.network_passphrase, st.key)
       IN  \E ok \in BOOLEAN :
             /\ log' = Append(log, RpcTxEvent("sendTransaction", tx, ok))
             /\ pc' = "tk_rpc_init"
             /\ UNCHANGED err
    /\ UNCHANGED <<file, cmd, st, out, pre, runs, derived, parked, succeeded>>

\* token/create.rs, run_against_rpc_server: the create transaction is sent
TkRpcSendCreate ==
    /\ pc = "tk_rpc_create"
    /\ LET tx == build_tx(build_create_token_op(st.contract_id, st.salt_val),
                          st.sequence + 1, Fee, cmd.network_passphrase, st.key)
       IN  \E ok \in BOOLEAN :
             /\ log' = Append(log, RpcTxEvent("sendTransaction", tx, ok))
             /\ IF ok THEN pc' = "tk_rpc_init" /\ UNCHANGED err
                ELSE Fail(Err("Client"))
    /\ UNCHANGED <<file, cmd, st, out, pre, runs, derived, parked, succeeded>>

\* TkRpcSendInit, were the initialize transaction built with the create one's sequence.
TkRpcSendInit_SameSequence ==
    /\ pc = "tk_rpc_init"
    /\ LET parameters == init_parameters(st.contract_id, st.admin, cmd.name, cmd.symbol,
                                         cmd.decimal)
           tx == build_tx(build_init_op(st.contract_id, parameters),
                          st.sequence + 1, Fee, cmd.network_passphrase, st.key)
       IN  \E ok \in BOOLEAN :
             /\ log' = Append(log, RpcTxEvent("sendTransaction", tx, ok))
             /\ IF ok THEN pc' = "Done" /\ out' = st.contract_id /\ UNCHANGED err
                ELSE Fail(Err("Client")) /\ UNCHANGED out
    /\ UNCHANGED <<file, cmd, st, pre, runs, derived, parked, succeeded>>

\* TkRpcSendInit, were a failed submission tried again.
TkRpcSendInit_Retries ==
    /\ pc = "tk_rpc_init"
    /\ LET parameters == init_parameters(st.contract_id, st.admin, cmd.name, cmd.symbol,
                                         cmd.decimal)
           tx == build_tx(build_init_op(st.contract_id, parameters),
                          st.sequence + 2, Fee, cmd.network_passphrase, st.key)
       IN  \E ok \in BOOLEAN :
             /\ log' = Append(log, RpcTxEvent("sendTransaction", tx, ok))
             /\ IF ok THEN pc' = "Done" /\ out' = st.contract_id /\ UNCHANGED err
                ELSE IF Len(log) < 4 THEN UNCHANGED <<pc, err, out>>
                ELSE Fail(Err("Client")) /\ UNCHANGED out
    /\ UNCHANGED <<file, cmd, st, pre, runs, derived, parked, succeeded>>

\* token/create.rs, run_against_rpc_server: the initialize transaction is sent,
\* and Cmd::run prints the contract id
TkRpcSendInit ==
    /\ pc = "tk_rpc_init"
    /\ LET parameters == init_parameters(st.contract_id, st.admin, cmd.name, cmd.symbol,
                                         cmd.decimal)
           tx == build_tx(build_init_op(st.contract_id, parameters),
                          st.sequence + 2, Fee, cmd.network_passphrase, st.key)
       IN  \E ok \in BOOLEAN :
             /\ log' = Append(log, RpcTxEvent("sendTransaction", tx, ok))
             /\ IF ok THEN pc' = "Done" /\ out' = st.contract_id /\ UNCHANGED err
                ELSE Fail(Err("Client")) /\ UNCHANGED out
    /\ UNCHANGED <<file, cmd, st, pre, runs, derived, parked, succeeded>>

\* ------------------------------------------------------------ specification

Next ==
    \/ Start \/ Exit
    \/ InvokeRun \/ SbRead \/ SbPrepare \/ SbInvoke \/ SbFinish \/ SbCommit
    \/ RpcKey \/ RpcGetAccount \/ RpcGetWasm \/ RpcSimulate \/ RpcSend
    \/ TokenRun \/ TkSbRead \/ TkSbCreate \/ TkSbInit \/ TkSbFinish \/ TkSbCommit
    \/ TkRpcKey \/ TkRpcGetAccount \/ TkRpcSendCreate \/ TkRpcSendInit

Spec == Init /\ [][Next]_vars

\* ------------------------------------------------------------------ progress

\* The run stands at `.await` on a call to the RPC server: the next step is the
\* server's answer (or the transport's error), which nothing in the run bounds.
Awaiting ==
    \/ pc \in {"rpc_account", "rpc_send", "tk_rpc_account", "tk_rpc_create", "tk_rpc_init"}
    \/ pc = "rpc_wasm" /\ cmd.wasm = NoWasm
    \/ /\ pc = "rpc_simulate"
       /\ build_host_function_parameters(st.contract_id, st.wasm, cmd.function,
                                         cmd.cmdline).err = NoErr

\* A step the process takes on its own: synchronous work on one thread.
LocalStep == pc # "idle" /\ ~Terminal /\ ~Awaiting /\ Next

\* The process is scheduled; the RPC server owes no answer.
LiveSpec == Init /\ [][Next]_vars /\ WF_vars(LocalStep)

\* --------------------------------------------- two runs against one ledger file

\* Two sandbox processes started against the same ledger file.  Nothing
\* in run_in_sandbox locks the file, so the operating system may take the
\* processor from one and give it to the other between any two steps.
ConcCmds ==
    { InvokeCmd(GivenContract, WasmA, "f", <<ArgSeven, ArgAbc>>, Sandbox),
      InvokeCmd(GivenContract, NoWasm, "g", <<XdrArgSeven>>, Sandbox) }
    \cup { c \in TokenCmds : ~c.rpc /\ c.secret_key = GoodSecret /\ c.salt # "zz"
                              /\ c.symbol = <<"X", "L", "M">> /\ c.admin = NoAdmin }

Process(c, f) ==
    [cmd |-> c, pc |-> "run", err |-> NoErr, st |-> InitLocals, out |-> "",
     log |-> << >>, pre |-> f]

ConcInit ==
    /\ file \in InitFiles
    /\ cmd \in ConcCmds
    /\ pc = "run"
    /\ err = NoErr
    /\ st = InitLocals
    /\ out = ""
    /\ log = << >>
    /\ pre = file
    /\ runs = 2
    /\ derived = {}
    /\ \E c \in ConcCmds : parked = Process(c, file)
    /\ succeeded = 0

\* The running process is taken off the processor and the other one put on.
Switch ==
    /\ parked # Alone
    /\ parked.pc \notin {"Done", "Failed"}
    /\ parked' = [cmd |-> cmd, pc |-> pc, err |-> err, st |-> st, out |-> out,
                  log |-> log, pre |-> pre]
    /\ cmd' = parked.cmd
    /\ pc' = parked.pc
    /\ err' = parked.err
    /\ st' = parked.st
    /\ out' = parked.out
    /\ log' = parked.log
    /\ pre' = parked.pre
    /\ UNCHANGED <<file, runs, derived, succeeded>>

ConcNext ==
    \/ Switch
    \/ InvokeRun \/ SbRead \/ SbPrepare \/ SbInvoke \/ SbFinish \/ SbCommit
    \/ TokenRun \/ TkSbRead \/ TkSbCreate \/ TkSbInit \/ TkSbFinish \/ TkSbCommit

ConcSpec == ConcInit /\ [][ConcNext]_vars

\* -------------------------------------------------- the marshaler on its own

\* build_host_function_parameters applied to every command line of up to
\* MaxArgs arguments, for each function name and contract code.
ArgValues == {ArgSeven, ArgAbc, XdrArgSeven, XdrArgAbc, XdrArgBad}
AllCmdLines == UNION {[1..n -> ArgValues] : n \in 0..MaxArgs}

MarshalCmds ==
    { InvokeCmd(GivenContract, w, f, a, Sandbox) :
        w \in {WasmA, WasmBad, WasmLong}, f \in Functions \cup {"h"}, a \in AllCmdLines }

MarshalInit ==
    /\ parked = Alone
    /\ succeeded = 0
    /\ file \in InitFiles
    /\ cmd \in MarshalCmds
    /\ pc = "marshal"
    /\ err = NoErr
    /\ st = InitLocals
    /\ out = ""
    /\ log = << >>
    /\ pre = file
    /\ runs = 1
    /\ derived = {}

Marshal ==
    /\ pc = "marshal"
    /\ LET id == contract_id_from_str(cmd.contract_id)
           marshal == build_host_function_parameters(id.bytes, cmd.wasm, cmd.function,
                                                     cmd.cmdline)
       IN  /\ st' = [st EXCEPT !.contract_id = id.bytes,
                               !.wasm = cmd.wasm,
                               !.params = marshal.params]
           /\ IF marshal.err # NoErr THEN Fail(marshal.err)
              ELSE pc' = "marshalled" /\ UNCHANGED err
    /\ UNCHANGED <<file, cmd, out, log, pre, runs, derived, parked, succeeded>>

MarshalSpec == MarshalInit /\ [][Marshal]_vars

\* ------------------------------------------------------------------ claims

Running == pc # "idle"
IsHost(e) == e.ev = "host"
IsRpc(e, method) == e.ev = "rpc" /\ e.method = method
IsSend(e) == IsRpc(e, "sendTransaction")
Op(e) == e.tx.tx.operations[1]
HostCalls == {i \in DOMAIN log : IsHost(log[i])}
Reads == {i \in DOMAIN log : log[i].ev = "snapshot_read"}
Commits == {i \in DOMAIN log : log[i].ev = "snapshot_commit"}
Sends == {i \in DOMAIN log : IsSend(log[i])}
HostFailed == \E i \in HostCalls : ~log[i].ok

\* C1: in the sandbox strategy, of invoke and of token creation, a failed Host
\* invocation ends the run in Failed with no snapshot commit, and the ledger
\* file is what it was before the run, also when a --wasm contract had been
\* deployed into the entries in memory.
C1_HostFailureLeavesSnapshot ==
    HostFailed =>
        /\ pc = "Failed"
        /\ err = Err("Host")
        /\ Commits = {}
        /\ file = pre

C1_Witness ==
    /\ HostFailed
    /\ pc = "Failed"
    /\ cmd.kind = "invoke"
    /\ cmd.wasm = WasmA
    /\ CodeKey(st.contract_id) \notin DOMAIN pre.entries
    /\ CodeKey(st.contract_id) \in DOMAIN st.state.entries

\* C2: a sandbox run reads the snapshot exactly once, before anything else,
\* and commits it at most once, as its last step, after every Host invocation
\* of the run succeeded; the ledger file is always the whole snapshot from
\* before the run or the whole snapshot after the execution.
InSandbox ==
    \/ pc \in {"sb_prepare", "sb_invoke", "sb_finish", "sb_commit",
               "tk_sb_create", "tk_sb_init", "tk_sb_finish", "tk_sb_commit"}
    \/ /\ Terminal
       /\ ~cmd.rpc
       /\ err.tag \notin {"CannotParseContractId", "CannotParseSalt", "InvalidAssetCode"}

PostExecutionSnapshot ==
    [info |-> LedgerInfo(pre.info.sequence_number + 1, pre.info.timestamp + 5),
     entries |-> ApplyStorage(st.state.entries, st.storage)]

C2_ReadOnceCommitLast ==
    /\ pc \in {"sb_read", "tk_sb_read"} => log = << >>
    /\ InSandbox => Reads = {1}
    /\ \A i \in Commits :
        /\ i = Len(log)
        /\ Terminal
        /\ \A h \in HostCalls : log[h].ok
        /\ Cardinality(HostCalls) = IF cmd.kind = "invoke" THEN 1 ELSE 2
    /\ Running =>
        \/ file = pre
        \/ /\ file = PostExecutionSnapshot
           /\ pc = "Done"
           /\ Commits = {Len(log)}
           /\ log[Len(log)].ok

C2_Witness ==
    /\ pc = "Done"
    /\ cmd.kind = "token"
    /\ ~cmd.rpc
    /\ file # pre
    /\ Reads = {1}
    /\ Commits = {Len(log)}

\* C3: when the number of arguments supplied differs from the number of
\* parameters the function declares, the run fails with
\* UnexpectedArgumentCount{provided, expected, function}, and no Host invocation,
\* no simulation and no submission has happened.
Marshalled == cmd.kind = "invoke" /\ Running /\ st.wasm # "" /\ pc # "rpc_simulate"
DeclaredSpec == find_function(from_wasm(st.wasm).entries, cmd.function, 1)

C3_ArgumentCountChecked ==
    (Marshalled /\ DeclaredSpec.found /\ Len(cmd.cmdline) # Len(DeclaredSpec.inputs)) =>
        /\ pc = "Failed"
        /\ err = [tag |-> "UnexpectedArgumentCount", provided |-> Len(cmd.cmdline),
                  expected |-> Len(DeclaredSpec.inputs), function |-> cmd.function]
        /\ HostCalls = {}
        /\ \A i \in DOMAIN log :
            ~IsRpc(log[i], "simulateTransaction") /\ ~IsSend(log[i])

C3_Witness ==
    /\ Marshalled
    /\ pc = "Failed"
    /\ cmd.function = "f"
    /\ Len(DeclaredSpec.inputs) = 2
    /\ Len(cmd.cmdline) = 1
    /\ err.tag = "UnexpectedArgumentCount"
    /\ err.provided = 1
    /\ err.expected = 2

\* C4: remote invoke submits only after a simulation that answered; the
\* submitted transaction has the parameters, the fee and the sequence number
\* (the account's fetched sequence + 1) of the simulated one, and differs from
\* it only in the footprint: the simulated one's is empty, the submitted one's
\* is the footprint the simulation returned.
C4_SubmitAfterSimulate ==
    (cmd.kind = "invoke" /\ cmd.rpc /\ Running) =>
        \A i \in Sends :
            /\ i = Len(log)
            /\ i >= 3
            /\ IsRpc(log[i - 1], "simulateTransaction")
            /\ log[i - 1].ok
            /\ log[i - 1].answer.wellformed
            /\ \E a \in 1..(i - 2) :
                /\ IsRpc(log[a], "getAccount")
                /\ log[a].ok
                /\ LET simulated == log[i - 1].tx
                       submitted == log[i].tx
                       fetched == parse_i64(log[a].sequence).n
                   IN  /\ simulated.tx.seq_num = fetched + 1
                       /\ submitted.tx.seq_num = fetched + 1
                       /\ submitted.tx.fee = simulated.tx.fee
                       /\ Op(log[i]).parameters = Op(log[i - 1]).parameters
                       /\ Op(log[i]).parameters =
                              build_host_function_parameters(st.contract_id, st.wasm,
                                  cmd.function, cmd.cmdline).params
                       /\ Op(log[i - 1]).footprint = EmptyFootprint
                       /\ Op(log[i]).footprint = log[i - 1].answer.footprint
                       /\ [submitted.tx EXCEPT !.operations[1].footprint = EmptyFootprint]
                              = simulated.tx
                       /\ submitted.signatures = simulated.signatures

C4_Witness ==
    /\ cmd.kind = "invoke"
    /\ cmd.rpc
    /\ pc = "Done"
    /\ Sends = {Len(log)}
    /\ log[Len(log)].ok
    /\ Op(log[Len(log)]).footprint.read_write # << >>

\* C5: in the remote strategy a failed RPC call ends the run at once: nothing
\* is attempted after it (no submission after a failed lookup or simulation,
\* no initialize submission after a failed create submission).
C5_RpcFailureStops ==
    (cmd.rpc /\ Running) =>
        \A i \in DOMAIN log :
            (log[i].ev = "rpc" /\ ~log[i].ok) => (i = Len(log) /\ pc = "Failed")

C5_Witness ==
    /\ cmd.kind = "token"
    /\ cmd.rpc
    /\ pc = "Failed"
    /\ Sends = {Len(log)}
    /\ ~log[Len(log)].ok
    /\ Op(log[Len(log)]).function = "CreateTokenContractWithSourceAccount"

\* C6: remote token creation with fetched sequence N submits the create
\* transaction with sequence N+1, then the initialize transaction with N+2; the
\* sequence numbers of the transactions submitted in a run strictly increase.
C6_TokenSequenceNumbers ==
    (cmd.kind = "token" /\ cmd.rpc /\ Running) =>
        /\ Cardinality(Sends) <= 2
        /\ \A i \in Sends :
            \E a \in 1..(i - 1) :
                /\ IsRpc(log[a], "getAccount")
                /\ log[a].ok
                /\ LET fetched == parse_i64(log[a].sequence).n
                   IN  IF \A j \in Sends : i <= j
                       THEN /\ Op(log[i]).function = "CreateTokenContractWithSourceAccount"
                            /\ log[i].tx.tx.seq_num = fetched + 1
                       ELSE /\ Op(log[i]).function = "InvokeContract"
                            /\ Op(log[i]).parameters[2].v = "init"
                            /\ log[i].tx.tx.seq_num = fetched + 2
        /\ \A i, j \in Sends :
            i < j => /\ log[i].tx.tx.seq_num < log[j].tx.tx.seq_num
                     /\ log[i].tx.tx.source_account = log[j].tx.tx.source_account

C6_Witness ==
    /\ cmd.kind = "token"
    /\ cmd.rpc
    /\ pc = "Done"
    /\ Cardinality(Sends) = 2

\* C7: in remote token creation, when the create submission succeeded and the
\* initialize submission failed, the run ends in Failed and nothing follows the
\* failed submission: no retry, no rollback, no compensation.  The contract is
\* left created and not initialized.
CreateAccepted ==
    \E i \in Sends : log[i].ok /\ Op(log[i]).function = "CreateTokenContractWithSourceAccount"
InitRejected ==
    \E i \in Sends : ~log[i].ok /\ Op(log[i]).function = "InvokeContract"
InitAccepted ==
    \E i \in Sends : log[i].ok /\ Op(log[i]).function = "InvokeContract"

C7_NoRollbackAfterInitFailure ==
    (cmd.kind = "token" /\ cmd.rpc /\ Running /\ CreateAccepted /\ InitRejected) =>
        /\ pc = "Failed"
        /\ err = Err("Client")
        /\ ~InitAccepted
        /\ Cardinality(Sends) = 2
        /\ ~log[Len(log)].ok
        /\ Sends = {Len(log) - 1, Len(log)}

C7_Witness ==
    /\ cmd.kind = "token"
    /\ cmd.rpc
    /\ pc = "Failed"
    /\ CreateAccepted
    /\ InitRejected
    /\ ~InitAccepted

\* C8: sandbox token creation is atomic: the ledger file never holds a token
\* contract that was created and not initialized; after a run it holds the
\* effects of both Host invocations or of neither.
TokensIn(entries) == {k \in DOMAIN entries : entries[k] = TokenCode}

C8_SandboxTokenAtomic ==
    /\ \A k \in TokensIn(file.entries) :
        /\ AdminKey(k.contract_id) \in DOMAIN file.entries
        /\ MetadataKey(k.contract_id) \in DOMAIN file.entries
    /\ (cmd.kind = "token" /\ ~cmd.rpc /\ Running) =>
        \/ file = pre
        \/ /\ Cardinality(HostCalls) = 2
           /\ \A h \in HostCalls : log[h].ok
           /\ CodeKey(st.contract_id) \in DOMAIN file.entries \ DOMAIN pre.entries
           /\ AdminKey(st.contract_id) \in DOMAIN file.entries \ DOMAIN pre.entries
           /\ MetadataKey(st.contract_id) \in DOMAIN file.entries \ DOMAIN pre.entries

C8_Witness ==
    /\ cmd.kind = "token"
    /\ ~cmd.rpc
    /\ pc = "Failed"
    /\ Cardinality(HostCalls) = 2
    /\ \E h \in HostCalls : log[h].ok /\ log[h].function = "CreateTokenContractWithSourceAccount"
    /\ \E h \in HostCalls : ~log[h].ok /\ log[h].function = "InvokeContract"
    /\ TokensIn(st.storage) # {}
    /\ file = pre

\* C9, as claimed: token creation with a symbol of more than 12 characters
\* fails with InvalidAssetCode for every salt, admin and strategy, before any
\* snapshot read, Host invocation or RPC call.
C9_AsClaimed ==
    (cmd.kind = "token" /\ pc \notin {"idle", "run"} /\ Len(cmd.symbol) > 12) =>
        /\ pc = "Failed"
        /\ err.tag = "InvalidAssetCode"
        /\ log = << >>

\* C9, amended: token creation with a salt that parses and a symbol of more
\* than 12 characters fails with InvalidAssetCode for every admin and strategy,
\* before any snapshot read, Host invocation or RPC call.
C9_LongSymbolRejected ==
    (/\ cmd.kind = "token"
     /\ pc \notin {"idle", "run"}
     /\ contract_id_from_str(cmd.salt).ok
     /\ Len(cmd.symbol) > 12) =>
        /\ pc = "Failed"
        /\ err = [tag |-> "InvalidAssetCode", asset |-> cmd.symbol]
        /\ log = << >>

C9_Witness ==
    /\ cmd.kind = "token"
    /\ cmd.rpc
    /\ cmd.admin # NoAdmin
    /\ Len(cmd.symbol) = 13
    /\ pc = "Failed"
    /\ err.tag = "InvalidAssetCode"

Derivations == {i \in DOMAIN log : log[i].ev = "derive"}
CreateCalls ==
    {i \in HostCalls : log[i].function = "CreateTokenContractWithSourceAccount"}
CreateSends ==
    {i \in Sends : Op(log[i]).function = "CreateTokenContractWithSourceAccount"}
CallerSalt == contract_id_from_str(cmd.salt).bytes

C11_SaltHandling ==
    (cmd.kind = "token" /\ Running) =>
        /\ ~cmd.rpc =>
            /\ \A i \in CreateCalls : log[i].parameters = << [type |-> "Bytes", v |-> CallerSalt] >>
            /\ \A i \in Derivations : log[i].salt = CallerSalt
        /\ (cmd.rpc /\ pc \notin {"run", "tk_rpc_key", "Failed"}) =>
            /\ CallerSalt # ZeroSalt => st.salt_val = CallerSalt
            /\ CallerSalt = ZeroSalt => st.salt_val \in RandomSalts
        /\ cmd.rpc =>
            /\ \A i \in Derivations :
                /\ log[i].salt = st.salt_val
                /\ CallerSalt # ZeroSalt => log[i].salt = CallerSalt
            /\ \A i \in CreateSends :
                /\ Op(log[i]).parameters = << [type |-> "Bytes", v |-> st.salt_val] >>
                /\ \E d \in Derivations :
                    /\ d < i
                    /\ Op(log[i]).parameters[1].v = log[d].salt
                    /\ Op(log[i]).footprint.read_write = << CodeKey(log[d].id) >>

C11_Witness ==
    /\ cmd.kind = "token"
    /\ cmd.rpc
    /\ pc = "Done"
    /\ CallerSalt = ZeroSalt
    /\ st.salt_val # ZeroSalt
    /\ \E i \in CreateSends : Op(log[i]).parameters[1].v = st.salt_val
    /\ \E d \in Derivations : log[d].salt = st.salt_val

\* C12: the marshaler's merged argument sequence is the typed-string and the
\* xdr-encoded arguments in the order of the command line: every argument
\* given appears exactly once, positions ascend, the order inside each family
\* is kept, and the i-th merged argument meets the i-th declared parameter.
IsTyped(a) == a.kind = "Arg"
IsEncoded(a) == a.kind = "ArgXdr"
Strings(args) == [i \in DOMAIN args |-> args[i].s]
Merged == all_indexed_args(cmd.cmdline)

C12_MergedInCommandLineOrder ==
    /\ Len(Merged) = Len(cmd.cmdline)
    /\ \A i \in DOMAIN Merged :
        /\ Merged[i].idx = ClapIndex(i)
        /\ Merged[i].s = cmd.cmdline[i].s
        /\ IsTyped(Merged[i]) <=> cmd.cmdline[i].fam = "args"
        /\ IsEncoded(Merged[i]) <=> cmd.cmdline[i].fam = "args-xdr"
    /\ \A i, j \in DOMAIN Merged : i < j => Merged[i].idx < Merged[j].idx
    /\ Strings(SelectSeq(Merged, IsTyped)) = values_of(cmd.cmdline, "args", 1)
    /\ Strings(SelectSeq(Merged, IsEncoded)) = values_of(cmd.cmdline, "args-xdr", 1)
    /\ pc = "marshalled" =>
        /\ Len(st.params) = Len(Merged) + 2
        /\ \A i \in DOMAIN Merged :
            st.params[i + 2] =
                IF IsTyped(Merged[i])
                THEN from_string(cmd.cmdline[i].s, DeclaredSpec.inputs[i]).val
                ELSE from_xdr_base64(cmd.cmdline[i].s).val

C12_Witness ==
    /\ pc = "marshalled"
    /\ cmd.function = "h"
    /\ cmd.cmdline = <<ArgAbc, XdrArgSeven, ArgSeven>>
    /\ st.params[3] = [type |-> "Symbol", v |-> "abc"]
    /\ st.params[4] = [type |-> "U32", v |-> "7"]
    /\ st.params[5] = [type |-> "Symbol", v |-> "7"]

\* C13: when the marshaler succeeds, the parameters are the contract id, then
\* the function name as a symbol, then the parsed arguments in merged order,
\* declared parameter count + 2 values in all and no more than the protocol
\* maximum; MaxNumberOfArgumentsReached carries that length and that maximum.
MarshalSucceeded == cmd.kind = "invoke" /\ Running /\ st.params # << >>
ParametersUsed ==
    {log[i].parameters : i \in HostCalls}
    \cup {Op(log[i]).parameters :
            i \in {j \in DOMAIN log : IsSend(log[j]) \/ IsRpc(log[j], "simulateTransaction")}}

Envelopes ==
    {i \in DOMAIN log : IsSend(log[i]) \/ IsRpc(log[i], "simulateTransaction")}
SignerKey == parse_private_key(cmd.secret_key)

C14_EnvelopeShape ==
    Running =>
        /\ \A i \in Envelopes :
            LET envelope == log[i].tx
            IN  /\ SignerKey.ok
                /\ envelope.tx.source_account = SignerKey.public
                /\ envelope.tx.fee = Fee
                /\ envelope.tx.seq_num =
                       st.sequence + (IF Op(log[i]).function = "InvokeContract"
                                         /\ cmd.kind = "token" THEN 2 ELSE 1)
                /\ envelope.tx.memo = "None"
                /\ envelope.tx.cond = "None"
                /\ Len(envelope.tx.operations) = 1
                /\ Op(log[i]).source_account = "None"
                /\ Op(log[i]).function =
                       IF cmd.kind = "invoke" THEN "InvokeContract"
                       ELSE IF i = CHOOSE j \in Envelopes : \A k \in Envelopes : j <= k
                       THEN "CreateTokenContractWithSourceAccount" ELSE "InvokeContract"
                /\ envelope.tx.ext = "V0"
                /\ envelope.signatures =
                       << [hint |-> SignerKey.public,
                           network_id |-> Sha256(cmd.network_passphrase)] >>
        /\ (cmd.rpc /\ pc = "Failed" /\ SignerKey.ok) =>
            \/ /\ err.tag \in {"Rpc", "Client", "Xdr", "ParseIntError",
                                 "UnexpectedContractCodeDataType"}
               /\ log # << >>
               /\ log[Len(log)].ev = "rpc"
               /\ err.tag \in {"Rpc", "Client"} <=> ~log[Len(log)].ok
            \/ /\ Envelopes = {}
               /\ err.tag \notin {"Rpc", "Client", "Xdr", "ParseIntError",
                                    "UnexpectedContractCodeDataType"}

C14_Witness ==
    /\ cmd.kind = "token"
    /\ cmd.rpc
    /\ cmd.admin = AdminAccount
    /\ pc = "Done"
    /\ Cardinality(Envelopes) = 2
    /\ \A i \in Envelopes : log[i].tx.tx.source_account = SignerAccount
    /\ \E i, j \in Envelopes : log[i].tx.tx.seq_num + 1 = log[j].tx.tx.seq_num

\* C15, as claimed: in sandbox invoke, a run whose Host invocation succeeded
\* ends in Done with the post-execution entries and the advanced ledger info
\* committed to the ledger file.
HostSucceeded == \E i \in HostCalls : log[i].ok

C15_AsClaimed ==
    (cmd.kind = "invoke" /\ ~cmd.rpc /\ Terminal /\ HostSucceeded) =>
        /\ pc = "Done"
        /\ Commits = {Len(log)}
        /\ file = PostExecutionSnapshot
        /\ file.info = advance(pre.info)

\* The run that refutes it: the Host invocation succeeded and wrote an entry,
\* the result could not be printed, and the run ended in Failed with nothing
\* committed.
C15_Witness ==
    /\ cmd.kind = "invoke"
    /\ ~cmd.rpc
    /\ HostSucceeded
    /\ DataKey(st.contract_id) \in DOMAIN st.storage
    /\ st.storage[DataKey(st.contract_id)] = "d1"
    /\ pc = "Failed"
    /\ err = Err("CannotPrintResult")
    /\ Commits = {}
    /\ file = pre

Calls(method) == {i \in DOMAIN log : IsRpc(log[i], method)}
Steps == {i \in DOMAIN log : log[i].ev # "derive"}
RpcMethods == {"getAccount", "getContractData", "simulateTransaction", "sendTransaction"}

C17_NoRetryNoSwallow ==
    Running =>
        /\ pc = "Failed" <=> err # NoErr
        /\ log # << >> =>
            /\ \A m \in RpcMethods \ {"sendTransaction"} : Cardinality(Calls(m)) <= 1
            /\ \A i, j \in Sends : i # j => Op(log[i]).function # Op(log[j]).function
            /\ cmd.kind = "invoke" => Cardinality(Sends) <= 1
            /\ \A i, j \in HostCalls : i # j => log[i].function # log[j].function
            /\ \A i \in DOMAIN log : log[i].ev = "rpc" => log[i].method \in RpcMethods
            /\ \A i \in Steps : ~log[i].ok => (i = Len(log) /\ pc = "Failed")
        /\ (pc = "Done" /\ cmd.rpc) =>
            /\ Len(log) \in Sends
            /\ \A i \in Steps : log[i].ok
            /\ Cardinality(Sends) = IF cmd.kind = "invoke" THEN 1 ELSE 2

C17_Witness ==
    /\ cmd.kind = "invoke"
    /\ cmd.rpc
    /\ pc = "Failed"
    /\ err = Err("Rpc")
    /\ Sends = {Len(log)}
    /\ ~log[Len(log)].ok
    /\ Calls("simulateTransaction") = {Len(log) - 1}
    /\ log[Len(log) - 1].answer.wellformed

\* C18: two sandbox runs against the same ledger file, with no lock, can both
\* read the same snapshot and both commit; the later commit replaces the
\* earlier one as a whole, so the file holds one run's snapshot only: its
\* ledger sequence is one more than the sequence read, not two, and what the
\* other run wrote is not in it.
Current == [cmd |-> cmd, pc |-> pc, err |-> err, st |-> st, out |-> out, log |-> log,
            pre |-> pre]
PostOf(p) == snapshot_commit(p.st.state.entries, p.st.ledger_info, p.st.storage)
Committed(p) == p.pc = "Done"
ReadOf(p) == p.st.state
WrittenBy(p) == {k \in DOMAIN p.st.storage : p.st.storage[k] # NoEntry}

C18_LaterCommitOverwrites ==
    parked # Alone =>
        /\ \/ file = pre
           \/ Committed(Current) /\ file = PostOf(Current)
           \/ Committed(parked) /\ file = PostOf(parked)
        /\ (Committed(Current) /\ Committed(parked) /\ ReadOf(Current) = ReadOf(parked)) =>
            /\ file.info = advance(pre.info)
            /\ file.info.sequence_number = pre.info.sequence_number + 1

C18_Witness ==
    /\ parked # Alone
    /\ Committed(Current)
    /\ Committed(parked)
    /\ ReadOf(Current) = ReadOf(parked)
    /\ Commits # {}
    /\ \E i \in DOMAIN parked.log : parked.log[i] = CommitEvent(TRUE)
    /\ file = PostOf(Current)
    /\ file.info.sequence_number = pre.info.sequence_number + 1
    /\ \E k \in WrittenBy(parked) : k \notin DOMAIN file.entries

\* C19, as claimed: token creation without --admin passes the account of the
\* private key given as the administrator of the initialize call.
InitCalls == {i \in HostCalls : log[i].function = "InvokeContract"}
InitSends == {i \in Sends : Op(log[i]).function = "InvokeContract"}
AdminOf(parameters) == parameters[3].v

C19_AsClaimed ==
    (cmd.kind = "token" /\ Running /\ cmd.admin = NoAdmin /\ SignerKey.ok) =>
        /\ \A i \in InitCalls : AdminOf(log[i].parameters) = "Account:" \o SignerKey.public
        /\ \A i \in InitSends : AdminOf(Op(log[i]).parameters) = "Account:" \o SignerKey.public

\* The run that refutes it: in the sandbox, with a private key given and no
\* --admin, the token is initialized and committed with the all-zero account
\* as its administrator.
C19_Witness ==
    /\ cmd.kind = "token"
    /\ ~cmd.rpc
    /\ cmd.admin = NoAdmin
    /\ SignerKey.ok
    /\ SignerKey.public # ZeroAccount
    /\ pc = "Done"
    /\ \E i \in InitCalls : log[i].ok /\ AdminOf(log[i].parameters) = "Account:" \o ZeroAccount
    /\ file.entries[AdminKey(st.contract_id)] = "Account:" \o ZeroAccount

\* C20: a typed-string argument is read as the type declared for the
\* parameter at its merged position, and the run fails with CannotParseArg
\* when it does not fit; an xdr-encoded argument is decoded with no look at
\* the declared type: malformed xdr fails with CannotParseXdrArg, and a
\* well-formed value of another type than declared is accepted and given to
\* the execution.
ArgFits(merged, inputs, i) ==
    IF IsTyped(merged[i]) THEN from_string(merged[i].s, inputs[i]).ok
    ELSE from_xdr_base64(merged[i].s).ok
MisfitsOf(merged, inputs) == {i \in DOMAIN merged : ~ArgFits(merged, inputs, i)}
Misfits == MisfitsOf(Merged, DeclaredSpec.inputs)
ArgsReached ==
    Marshalled /\ DeclaredSpec.found /\ Len(cmd.cmdline) = Len(DeclaredSpec.inputs)

C20_TypedCheckedXdrTrusted ==
    ArgsReached =>
        LET merged == Merged
            inputs == DeclaredSpec.inputs
            misfits == MisfitsOf(merged, inputs)
            first == CHOOSE i \in misfits : \A j \in misfits : i <= j
        IN  IF misfits # {}
            THEN /\ pc = "Failed"
                 /\ err = [tag |-> IF IsTyped(merged[first]) THEN "CannotParseArg"
                                   ELSE "CannotParseXdrArg",
                           arg |-> merged[first].s]
                 /\ HostCalls = {}
                 /\ Envelopes = {}
            ELSE /\ err.tag \notin {"CannotParseArg", "CannotParseXdrArg"}
                 /\ MarshalSucceeded
                 /\ \A i \in DOMAIN merged :
                     /\ IsTyped(merged[i]) => st.params[i + 2].type = inputs[i]
                     /\ IsEncoded(merged[i]) =>
                            st.params[i + 2] = from_xdr_base64(merged[i].s).val

C20_Witness ==
    /\ ArgsReached
    /\ Misfits = {}
    /\ cmd.cmdline = <<XdrArgAbc, XdrArgSeven>>
    /\ DeclaredSpec.inputs = <<"U32", "Symbol">>
    /\ \E h \in HostCalls :
        /\ log[h].ok
        /\ log[h].parameters[3] = [type |-> "Symbol", v |-> "abc"]
        /\ log[h].parameters[4] = [type |-> "U32", v |-> "7"]
    /\ pc = "Done"

\* C21: the marshaler checks in a fixed order and reports the first failure
\* only: the function is not in the contract's spec, then the argument count
\* differs from the declared one, then the first argument in merged order
\* that does not parse, then the function name is longer than a symbol, then
\* the parameter list is longer than a vector; when the function is absent or
\* the count differs the error is never an argument's, whatever the arguments.
SpecRead == from_wasm(cmd.wasm).ok
Declared == find_function(from_wasm(cmd.wasm).entries, cmd.function, 1)
MarshalReturned == pc \in {"marshalled", "Failed"}
ParseError(a) ==
    [tag |-> IF IsTyped(a) THEN "CannotParseArg" ELSE "CannotParseXdrArg", arg |-> a.s]

C21_FirstFailureInOrder ==
    (MarshalReturned /\ SpecRead) =>
        LET merged == Merged
            inputs == Declared.inputs
        IN  IF ~Declared.found
            THEN /\ pc = "Failed"
                 /\ err = [tag |-> "FunctionNotFoundInContractSpec", function |-> cmd.function]
            ELSE IF Len(merged) # Len(inputs)
            THEN /\ pc = "Failed"
                 /\ err = [tag |-> "UnexpectedArgumentCount", provided |-> Len(merged),
                           expected |-> Len(inputs), function |-> cmd.function]
            ELSE LET misfits == MisfitsOf(merged, inputs)
                     first == CHOOSE i \in misfits : \A j \in misfits : i <= j
                 IN  IF misfits # {}
                     THEN pc = "Failed" /\ err = ParseError(merged[first])
                     ELSE IF Len(cmd.function) > ScSymbolMaxLen
                     THEN /\ pc = "Failed"
                          /\ err = [tag |-> "FunctionNameTooLong", function |-> cmd.function]
                     ELSE IF Len(merged) + 2 > ScVecMaxLen
                     THEN pc = "Failed" /\ err.tag = "MaxNumberOfArgumentsReached"
                     ELSE pc = "marshalled" /\ err = NoErr

\* The count differs while an argument given would not parse either.
C21_Witness ==
    /\ pc = "Failed"
    /\ SpecRead
    /\ Declared.found
    /\ Len(Merged) # Len(Declared.inputs)
    /\ \E i \in DOMAIN Merged : i <= Len(Declared.inputs) /\ ~ArgFits(Merged, Declared.inputs, i)
    /\ err.tag = "UnexpectedArgumentCount"

\* C22: a sandbox run that succeeds, an invoke or a token creation with its
\* two Host invocations, leaves ledger metadata whose sequence number is 1
\* greater and whose timestamp is 5 greater than in the snapshot it read, and
\* every Host invocation of the run executed under those advanced values; a
\* run that fails leaves the metadata as they were; so after any series of
\* runs, one after the other, the sequence number in the file is the initial
\* one plus the number of sandbox runs that succeeded.
InitialSequence == 0
SandboxRun == Running /\ ~cmd.rpc
ReadInfo == st.state.info

C22_LedgerClockAdvances ==
    /\ \A f \in InitFiles : f.info.sequence_number = InitialSequence
    /\ pc = "idle" => file.info.sequence_number = InitialSequence + succeeded
    /\ Running =>
        file.info.sequence_number =
            InitialSequence + succeeded + (IF pc = "Done" /\ ~cmd.rpc THEN 1 ELSE 0)
    /\ SandboxRun =>
        /\ Reads # {} /\ (\A i \in Reads : log[i].ok) => ReadInfo = pre.info
        /\ \A i \in HostCalls :
            /\ log[i].ledger_info.sequence_number = ReadInfo.sequence_number + 1
            /\ log[i].ledger_info.timestamp = ReadInfo.timestamp + 5
        /\ pc = "Done" =>
            /\ file.info.sequence_number = ReadInfo.sequence_number + 1
            /\ file.info.timestamp = ReadInfo.timestamp + 5
            /\ HostCalls # {}
            /\ cmd.kind = "token" => Cardinality(HostCalls) = 2
        /\ pc # "Done" => file.info = pre.info
    /\ (Running /\ cmd.rpc) => file.info = pre.info

\* A second successful sandbox run, a token creation after an earlier success.
C22_Witness ==
    /\ pc = "Done"
    /\ ~cmd.rpc
    /\ cmd.kind = "token"
    /\ succeeded = 1
    /\ file.info = LedgerInfo(2, 10)
    /\ Cardinality(HostCalls) = 2
    /\ \A i \in HostCalls : log[i].ledger_info = LedgerInfo(2, 10)

\* C23: one strategy runs per invocation, chosen by nothing but whether an
\* RPC endpoint is given: a sandbox run makes no RPC call, and a remote run
\* neither reads nor writes the ledger file and never invokes the Host.
SandboxSteps ==
    {"sb_read", "sb_prepare", "sb_invoke", "sb_finish", "sb_commit",
     "tk_sb_read", "tk_sb_create", "tk_sb_init", "tk_sb_finish", "tk_sb_commit"}
RemoteSteps ==
    {"rpc_key", "rpc_account", "rpc_wasm", "rpc_simulate", "rpc_send",
     "tk_rpc_key", "tk_rpc_account", "tk_rpc_create", "tk_rpc_init"}
LocalEvents == {i \in DOMAIN log : log[i].ev \in {"snapshot_read", "snapshot_commit", "host"}}
RemoteEvents == {i \in DOMAIN log : log[i].ev = "rpc"}

C23_OneStrategyByEndpoint ==
    Running =>
        /\ pc \in SandboxSteps => ~cmd.rpc
        /\ pc \in RemoteSteps => cmd.rpc
        /\ cmd.rpc =>
            /\ LocalEvents = {}
            /\ file = pre
        /\ ~cmd.rpc => RemoteEvents = {}
        /\ pc = "Done" =>
            IF cmd.rpc THEN RemoteEvents # {} ELSE LocalEvents # {}

\* A remote token creation ends in Done over a ledger file an earlier sandbox
\* run wrote, and leaves it as it found it.
C23_Witness ==
    /\ pc = "Done"
    /\ cmd.rpc
    /\ cmd.kind = "token"
    /\ succeeded = 1
    /\ file.info = LedgerInfo(1, 5)
    /\ file = pre
    /\ Cardinality(RemoteEvents) = 3
    /\ LocalEvents = {}

\* C24: in token creation, in both strategies and with or without --admin,
\* the contract id the initialize operation targets, the id the remote
\* footprints name and the id the remote path reports, is the id derived from
\* the salt the create operation carries and the source account the create
\* operation executes under: the Host's source account in the sandbox, the
\* create transaction's source account, the signer, in the remote path.
SaltCarried(parameters) == parameters[1].v
TargetOf(parameters) == parameters[1].v
ExecutesUnder(i) ==
    IF IsHost(log[i]) THEN log[i].source_account ELSE log[i].tx.tx.source_account
CreatedId(i) ==
    get_contract_id(SaltCarried(IF IsHost(log[i]) THEN log[i].parameters
                                ELSE Op(log[i]).parameters),
                    ExecutesUnder(i))

C24_AsClaimed ==
    (cmd.kind = "token" /\ Running) =>
        /\ \A c \in CreateCalls : \A i \in InitCalls :
            TargetOf(log[i].parameters) = CreatedId(c)
        /\ \A c \in CreateSends :
            /\ ExecutesUnder(c) = SignerKey.public
            /\ Op(log[c]).footprint.read_write = << CodeKey(CreatedId(c)) >>
            /\ \A i \in InitSends :
                /\ TargetOf(Op(log[i]).parameters) = CreatedId(c)
                /\ Op(log[i]).footprint.read_write =
                       << AdminKey(CreatedId(c)), MetadataKey(CreatedId(c)) >>
            /\ pc = "Done" => out = CreatedId(c)

\* A remote creation with --admin naming another account than the signer:
\* both transactions were accepted, and the id initialized and reported is
\* the one derived from the administrator, not from the signer.
C24_Witness ==
    /\ cmd.kind = "token"
    /\ cmd.rpc
    /\ cmd.admin = AdminAccount
    /\ SignerKey.public # AdminAccount
    /\ pc = "Done"
    /\ \E c \in CreateSends : \E i \in InitSends :
        /\ log[c].ok /\ log[i].ok
        /\ ExecutesUnder(c) = SignerKey.public
        /\ TargetOf(Op(log[i]).parameters) = get_contract_id(SaltCarried(Op(log[c]).parameters),
                                                              AdminAccount)
        /\ TargetOf(Op(log[i]).parameters) # CreatedId(c)
        /\ out = TargetOf(Op(log[i]).parameters)

\* What does hold: without --admin, and in the sandbox always, the id is the
\* created one.
C24_WithoutAdminOrInSandbox ==
    (cmd.kind = "token" /\ Running /\ (~cmd.rpc \/ cmd.admin = NoAdmin)) =>
        /\ \A c \in CreateCalls : \A i \in InitCalls :
            TargetOf(log[i].parameters) = CreatedId(c)
        /\ \A c \in CreateSends : \A i \in InitSends :
            TargetOf(Op(log[i]).parameters) = CreatedId(c)

\* C25: a remote token creation makes no simulation call; the create
\* transaction is submitted with an empty read-only footprint and a read-write
\* footprint of exactly the contract-code key of the derived contract id, and
\* the initialize transaction with an empty read-only footprint and a
\* read-write footprint of exactly the Admin and the Metadata key of that id.
KeysOf(keys) == {keys[i] : i \in DOMAIN keys}
DerivedIds == {log[d].id : d \in Derivations}

C25_FixedFootprints ==
    (cmd.kind = "token" /\ Running /\ cmd.rpc) =>
        /\ Calls("simulateTransaction") = {}
        /\ Sends # {} => Cardinality(DerivedIds) = 1
        /\ \A id \in DerivedIds :
            /\ id = get_contract_id(st.salt_val,
                                    IF cmd.admin # NoAdmin THEN cmd.admin ELSE SignerKey.public)
            /\ \A c \in CreateSends :
                /\ Op(log[c]).footprint.read_only = << >>
                /\ Len(Op(log[c]).footprint.read_write) = 1
                /\ KeysOf(Op(log[c]).footprint.read_write) = {CodeKey(id)}
            /\ \A i \in InitSends :
                /\ Op(log[i]).footprint.read_only = << >>
                /\ Len(Op(log[i]).footprint.read_write) = 2
                /\ KeysOf(Op(log[i]).footprint.read_write) = {AdminKey(id), MetadataKey(id)}
                /\ TargetOf(Op(log[i]).parameters) = id
        /\ Sends = CreateSends \cup InitSends
        /\ pc = "Done" => Cardinality(CreateSends) = 1 /\ Cardinality(InitSends) = 1

C25_Witness ==
    /\ cmd.kind = "token"
    /\ cmd.rpc
    /\ pc = "Done"
    /\ Calls("simulateTransaction") = {}
    /\ \E c \in CreateSends : \E i \in InitSends :
        /\ c < i
        /\ log[c].ok /\ log[i].ok
        /\ Op(log[c]).footprint.read_write = << CodeKey(out) >>
        /\ Op(log[i]).footprint.read_write = << AdminKey(out), MetadataKey(out) >>

====
